---------------------------- MODULE Spec2Model ----------------------------
(***************************************************************************)
(* A model of the silent_speaker core: the dynamic framing engine          *)
(* (src/src/dynamic_framing.rs) and the FEC encoder and reassembler        *)
(* (src/src/fec/).                                                         *)
(*                                                                         *)
(* Cryptographic primitives are modelled by what the code relies on:       *)
(*   - SHA256(seed || x) is collision free on its full 256 bits: a seed is *)
(*     the sequence <<base, e1, e2, ...>> of everything mixed into it and  *)
(*     a salt is the pair (seed, sequence);                                *)
(*   - the truncated words of a salt (the 32-bit length mask, the 16-bit   *)
(*     hint mask) are numbers computed from the salt by Sha256Word, a      *)
(*     mixing function standing in for the digest bytes.  Truncated words  *)
(*     of different salts may be equal, as they may be for SHA256;         *)
(*   - ChaCha20-Poly1305 opens a ciphertext only under the key that sealed *)
(*     it and only when given exactly the sealed bytes.                    *)
(***************************************************************************)
EXTENDS Integers, Sequences, FiniteSets, TLC

VARIABLES
    config,     \* SilentConfig shared by the sender and the receiver
    sgen,       \* the sender's SaltGenerator
    rgen,       \* the receiver's SaltGenerator (owned by the parser in Spec)
    wire,       \* frames built and not yet delivered or dropped, oldest first
    built,      \* history: one record per build_dynamic_frame call
    buffer,     \* DynamicStreamParser.buffer / the data handed to parse
    yielded,    \* history: built-indices of the payloads the receiver returned
    last,       \* the outcome of the latest receiver call
    hist,       \* history flags and counters used to state the claims
    enc,        \* the latest FECEncoder.encode call: its arguments and output
    reasm,      \* the FECReassembler
    now,        \* the clock read by Instant::now(), in seconds
    fout,       \* history of the process_fec_frame calls and their results
    pool,       \* a StreamPool
    sched,      \* a StreamScheduler (it owns a StreamPool of its own)
    mgr,        \* a UnifiedStreamManager
    clock,      \* the clock read by the stream components, in seconds
    sout        \* the latest stream operation, its result and history

framing == <<config, sgen, rgen, wire, built, buffer, yielded, last, hist>>

fec == <<enc, reasm, now, fout>>

streams == <<pool, sched, mgr, clock, sout>>

vars == <<framing, fec, streams>>

---------------------------------------------------------------------------
(* Bounds of the model *)

MaxFrames == 3
NumSeeds == 2
NumEntropy == 2
MaxStartSeq == 3
MaxLost == 1001
MaxCalls == 3
MaxStreamFrames == 2
MaxK == 2
MaxM == 2
MaxFeeds == 4
MaxTicks == 2
NumSessions == 1
MaxPoolStreams == 3
MaxMinted == 4
MaxPoolTicks == 2
MaxMgrStreams == 2
MaxMessages == 2
MaxMgrCalls == 5
MaxMgrTicks == 2
MaxSchedStreams == 2
MaxTasks == 2
MaxTaskFrames == 2
MaxSchedClock == 22
MaxSchedCalls == 2
MaxBusyClock == 0
MaxBuilds == 4
MaxLateFrames == 4
MaxUniStreams == 2
MaxUniCalls == 5
MaxUniSessions == 2
MaxCritStreams == 3
MaxCritK == 2
MaxCritCalls == 3
MaxCapiCalls == 5

(* Program constants *)

search_window == 1000
TAG_LEN == 16
ENTROPY_LEN == 32
MAX_FRAME_BODY == 10485760
max_buffer_size == 10485760
BLOCK_ALIGN == 64
session_timeout == 30
session_cleanup_timeout == 300
idle_timeout == 30
max_wait_time == 10
BOOST_PERIOD == 5
max_retry_count == 3
MESSAGE_TIMEOUT == 30

---------------------------------------------------------------------------
(* Fixed-width arithmetic *)

Xor4 ==
    [a \in 0..15 |-> [b \in 0..15 |->
        ((a + b) % 2)
        + 2 * (((a \div 2) + (b \div 2)) % 2)
        + 4 * (((a \div 4) + (b \div 4)) % 2)
        + 8 * (((a \div 8) + (b \div 8)) % 2)]]

\* u16 ^ u16
Xor16(a, b) ==
    Xor4[a % 16][b % 16]
    + 16 * Xor4[(a \div 16) % 16][(b \div 16) % 16]
    + 256 * Xor4[(a \div 256) % 16][(b \div 256) % 16]
    + 4096 * Xor4[(a \div 4096) % 16][(b \div 4096) % 16]

\* A u32 is kept as its two big-endian 16-bit halves.
U32(n) == [hi |-> (n \div 65536) % 65536, lo |-> n % 65536]

Xor32(x, y) == [hi |-> Xor16(x.hi, y.hi), lo |-> Xor16(x.lo, y.lo)]

\* x > n for a u32 x and a number n below 2^31
U32Gt(x, n) ==
    \/ x.hi > n \div 65536
    \/ x.hi = n \div 65536 /\ x.lo > n % 65536

\* (x as usize) for a u32 known not to exceed MAX_FRAME_BODY
U32Val(x) == x.hi * 65536 + x.lo

---------------------------------------------------------------------------
(* SaltGenerator *)

RECURSIVE SeedNum(_)
SeedNum(seed) ==
    IF seed = <<>> THEN 0
    ELSE (SeedNum(SubSeq(seed, 1, Len(seed) - 1)) * 37 + seed[Len(seed)] + 1) % 251

\* The mixing function standing in for the digest: the 16-bit word `lane`
\* of the digest of (seed number n, sequence seq).
Mix(n, seq, lane) ==
    LET x == (n * 1021 + seq * 31 + lane) % 46337
    IN  ((x * x) \div 8 + 40503 * (x % 1000)) % 65536

\* The 16-bit big-endian word of SHA256(seed || seq) at bytes 2*lane, 2*lane+1.
Sha256Word(seed, seq, lane) == Mix(SeedNum(seed), seq, lane)

SaltGenerator_new(seed) == [seed |-> seed, sequence |-> 0]

\* A faulty set_sequence that leaves the sequence as it was.
set_sequence_ignored(gen, seq) == gen

set_sequence(gen, seq) == [gen EXCEPT !.sequence = seq]

\* A faulty get_salt_for_sequence whose salt does not depend on the sequence.
get_salt_without_sequence(gen, seq) == [seed |-> gen.seed, seq |-> 0]

get_salt_for_sequence(gen, seq) == [seed |-> gen.seed, seq |-> seq]

\* A faulty next_salt that does not advance the sequence.
next_salt_repeating(gen) ==
    [salt |-> get_salt_for_sequence(gen, gen.sequence), gen |-> gen]

\* Returns the salt of the current sequence and the advanced generator.
next_salt(gen) ==
    [salt |-> get_salt_for_sequence(gen, gen.sequence),
     gen  |-> [gen EXCEPT !.sequence = @ + 1]]

\* A faulty mix_entropy that leaves the seed as it was.
mix_entropy_ignored(gen, entropy) == gen

mix_entropy(gen, entropy) == [gen EXCEPT !.seed = Append(@, entropy)]

derive_keys(salt) ==
    [key       |-> salt,
     mask      |-> [hi |-> Sha256Word(salt.seed, salt.seq, 6),
                    lo |-> Sha256Word(salt.seed, salt.seq, 7)],
     hint_mask |-> Sha256Word(salt.seed, salt.seq, 8)]

\* (sequence as u16) ^ hint_mask, for every seed number and every sequence
\* the model reaches: the value SeqHint looks up.
HintTable ==
    [n \in 0..250 |->
        [s \in 0..(MaxLost + search_window + 8) |->
            Xor16(s % 65536, Mix(n, s, 8))]]

\* The obfuscated sequence hint of the frame sealed under `salt`.
SeqHint(salt) ==
    IF salt.seq <= MaxLost + search_window + 8
    THEN HintTable[SeedNum(salt.seed)][salt.seq]
    ELSE Xor16(salt.seq % 65536, derive_keys(salt).hint_mask)

\* A faulty ratchet predicate that also holds at sequence 0.
is_ratchet_frame_from_zero(cfg, sequence) ==
    /\ cfg.enable_double_ratchet
    /\ sequence % cfg.ratchet_interval = 0

\* config.enable_double_ratchet && sequence > 0
\*     && sequence % config.ratchet_interval == 0
is_ratchet_frame(cfg, sequence) ==
    /\ cfg.enable_double_ratchet
    /\ sequence > 0
    /\ sequence % cfg.ratchet_interval = 0

---------------------------------------------------------------------------
(* Frames.  A frame is its fields in wire order:                           *)
(*   obf_len (4 bytes), hint (2 bytes, optional), entropy (32 bytes,       *)
(*   optional), body (the sealed payload: payload bytes plus the tag).     *)

NoPayload == [id |-> 0, len |-> 0]

NoFrame ==
    [obf_len |-> U32(0), hint |-> <<>>, entropy |-> <<>>,
     body |-> [key |-> <<>>, pt |-> NoPayload, len |-> 0]]

FrameHeaderLen(f) == 4 + 2 * Len(f.hint) + ENTROPY_LEN * Len(f.entropy)

FrameLen(f) == FrameHeaderLen(f) + f.body.len

\* key.seal_in_place_append_tag
Seal(key, payload) == [key |-> key, pt |-> payload, len |-> payload.len + TAG_LEN]

\* The entropy argument of a call in which rng.fill fails.
RngFailure == 0

\* build_dynamic_frame; `entropy` is what rng.fill gives when it is asked.
\* An error leaves the generator as next_salt left it.  The sealed length of
\* every payload of the model fits a u32.
build_dynamic_frame(generator, payload, cfg, entropy) ==
    LET ns       == next_salt(generator)
        sequence == ns.gen.sequence - 1
        keys     == derive_keys(ns.salt)
        body     == Seal(keys.key, payload)
        obf      == Xor32(U32(body.len), keys.mask)
        do_rekey == is_ratchet_frame(cfg, sequence)
        hint     == SeqHint(ns.salt)
    IN  IF do_rekey /\ entropy = RngFailure
        THEN [res |-> "EncryptionError", frame |-> NoFrame, gen |-> ns.gen]
        ELSE [res   |-> "Ok",
              frame |-> [obf_len |-> obf,
                         hint    |-> IF cfg.enable_sequence_hint THEN <<hint>> ELSE <<>>,
                         entropy |-> IF do_rekey THEN <<entropy>> ELSE <<>>,
                         body    |-> body],
              gen   |-> IF do_rekey THEN mix_entropy(ns.gen, entropy) ELSE ns.gen]

---------------------------------------------------------------------------
(* parse_dynamic_frame.  `data` is the byte slice handed to the parser,    *)
(* given as its length and the frame its first bytes belong to.            *)

Data(frame, len) == [head |-> frame, len |-> len]

ParseErr(res, gen) ==
    [res |-> res, payload |-> NoPayload, consumed |-> 0, gen |-> gen]

\* A faulty search whose window excludes its last offset.
FirstMatch_exclusive(hints, current_seq, received_hint) ==
    LET matches == {offset \in 1..(search_window - 1) :
                        hints[current_seq + offset] = received_hint}
    IN  IF matches = {} THEN 0
        ELSE CHOOSE o \in matches : \A p \in matches : o <= p

\* The first offset in 1..=search_window at which `hints`, the hints of the
\* generator's seed by sequence, holds the received hint; 0 when none does.
FirstMatch(hints, current_seq, received_hint) ==
    LET matches == {offset \in 1..search_window :
                        hints[current_seq + offset] = received_hint}
    IN  IF matches = {} THEN 0
        ELSE CHOOSE o \in matches : \A p \in matches : o <= p

\* The for loop over 1..=search_window: check_hint is the hint of
\* get_salt_for_sequence(check_seq), compared with the received one.
FindSync(generator, current_seq, received_hint) ==
    FirstMatch([s \in 0..(current_seq + search_window) |->
                    SeqHint(get_salt_for_sequence(generator, s))],
               current_seq, received_hint)

\* A faulty read of the rekey field that takes no bytes of the frame.
ReadEntropy_zero(data) == 0

\* data[entropy_offset..entropy_offset+32]: the rekey field when the frame
\* has one, 32 bytes of ciphertext (0, no rng output) when it has none.
ReadEntropy(data) ==
    IF data.head.entropy # <<>> THEN data.head.entropy[1] ELSE 0

\* key.open_in_place on data[header_size..total_frame_size]
AeadOpens(key, data, header_size, encrypted_len) ==
    /\ key = data.head.body.key
    /\ header_size = FrameHeaderLen(data.head)
    /\ encrypted_len = data.head.body.len

\* The resynchronisation found `offset` frames ahead (0: none found).
ResyncTo(advanced, current_seq, cfg, do_rekey, offset) ==
    LET new_seq == current_seq + offset
    IN  IF offset = 0
        THEN [res |-> "DecryptionError",
              gen |-> set_sequence(advanced, current_seq),
              salt |-> get_salt_for_sequence(advanced, current_seq)]
        ELSE [res  |-> IF is_ratchet_frame(cfg, new_seq) # do_rekey
                       THEN "DecryptionError" ELSE "Ok",
              gen  |-> set_sequence(advanced, new_seq + 1),
              salt |-> get_salt_for_sequence(advanced, new_seq)]

\* The salt the frame is opened with and the generator advanced past it:
\* that of the current sequence, or, with the sequence hint enabled and a
\* hint that does not match, that of the first matching sequence ahead.
Resync(generator, data, cfg, do_rekey) ==
    LET current_seq == generator.sequence
        ns          == next_salt(generator)
    IN  IF cfg.enable_sequence_hint /\ data.head.hint[1] # SeqHint(ns.salt)
        THEN ResyncTo(ns.gen, current_seq, cfg, do_rekey,
                      FindSync(ns.gen, current_seq, data.head.hint[1]))
        ELSE [res |-> "Ok", gen |-> ns.gen, salt |-> ns.salt]

\* Rekey entropy, length de-obfuscation, bounds checks and decryption.
OpenFrame(sync, data, header_size, do_rekey) ==
    LET mixed  == IF do_rekey THEN mix_entropy(sync.gen, ReadEntropy(data))
                  ELSE sync.gen
        keys   == derive_keys(sync.salt)
        encrypted_len == Xor32(data.head.obf_len, keys.mask)
        total_frame_size == header_size + U32Val(encrypted_len)
    IN  IF sync.res # "Ok"
        THEN ParseErr(sync.res, sync.gen)
        ELSE IF U32Gt(encrypted_len, MAX_FRAME_BODY)
        THEN ParseErr("InvalidLength", mixed)
        ELSE IF data.len < total_frame_size
        THEN ParseErr("IncompleteData", [mixed EXCEPT !.sequence = @ - 1])
        ELSE IF AeadOpens(keys.key, data, header_size, U32Val(encrypted_len))
        THEN [res |-> "Ok", payload |-> data.head.body.pt,
              consumed |-> total_frame_size, gen |-> mixed]
        ELSE ParseErr("DecryptionError", mixed)

parse_dynamic_frame(generator, data, cfg) ==
    LET current_seq == generator.sequence
        do_rekey    == is_ratchet_frame(cfg, current_seq)
        header_size == 4 + (IF cfg.enable_sequence_hint THEN 2 ELSE 0)
                         + (IF do_rekey THEN ENTROPY_LEN ELSE 0)
    IN  IF data.len < header_size
        THEN ParseErr("IncompleteData", generator)
        ELSE OpenFrame(Resync(generator, data, cfg, do_rekey), data,
                       header_size, do_rekey)

---------------------------------------------------------------------------
(* FEC frames and the encoder (src/src/fec/frame.rs, encoder.rs).          *)
(*                                                                         *)
(* A shard payload is a record: a data shard carries its bytes; a parity   *)
(* shard carries its row number and the data shards it was computed from.  *)
(* Reed-Solomon is modelled by its erasure property: any k shards of one   *)
(* codeword determine all of its shards.                                   *)

\* u32::to_le_bytes
to_le_bytes(n) ==
    <<n % 256, (n \div 256) % 256, (n \div 65536) % 256,
      (n \div 16777216) % 256>>

DataShard(block) ==
    [len |-> Len(block), bytes |-> block, parity |-> 0, of |-> <<>>]

\* Row j of rs.encode over the data shards `blocks`.
ParityShard(blocks, j) ==
    [len |-> Len(blocks[1]), bytes |-> <<>>, parity |-> j, of |-> blocks]

\* XxHash64 over the hashed fields, taken as collision free.
calculate_frame_hash(frame) ==
    <<frame.session_id, frame.block_index, frame.k, frame.m, frame.payload,
      frame.block_type>>

validate_frame(frame) == calculate_frame_hash(frame) = frame.xxhash64

create_fec_frame(session_id, block_index, k, m, payload, block_type) ==
    LET frame == [session_id |-> session_id, block_index |-> block_index,
                  k |-> k, m |-> m, payload |-> payload, xxhash64 |-> <<>>,
                  block_type |-> block_type, version |-> 1]
    IN  [frame EXCEPT !.xxhash64 = calculate_frame_hash(frame)]

\* FECEncoder::new and ReedSolomon::new
FECEncoder_new(k, m) == IF k = 0 \/ m = 0 THEN "Err" ELSE "Ok"

split_into_blocks(data, block_size, k) ==
    [b \in 1..k |->
        [j \in 1..block_size |->
            LET pos == (b - 1) * block_size + j
            IN  IF pos <= Len(data) THEN data[pos] ELSE 0]]

\* An encode that takes the smallest block size without aligning it.
encode_unaligned(k, m, data, session_id) ==
    LET framed_data    == to_le_bytes(Len(data)) \o data
        total_size     == Len(framed_data)
        block_size     == (total_size + k - 1) \div k
        blocks         == split_into_blocks(framed_data, block_size, k)
    IN  [i \in 1..(k + m) |->
            IF i <= k
            THEN create_fec_frame(session_id, i - 1, k, m,
                                  DataShard(blocks[i]), "Original")
            ELSE create_fec_frame(session_id, i - 1, k, m,
                                  ParityShard(blocks, i - k), "Redundant")]

\* FECEncoder::encode: the k + m frames, in block_index order.
encode(k, m, data, session_id) ==
    LET framed_data    == to_le_bytes(Len(data)) \o data
        total_size     == Len(framed_data)
        min_block_size == (total_size + k - 1) \div k
        block_size     == ((min_block_size + 63) \div BLOCK_ALIGN) * BLOCK_ALIGN
        blocks         == split_into_blocks(framed_data, block_size, k)
    IN  [i \in 1..(k + m) |->
            IF i <= k
            THEN create_fec_frame(session_id, i - 1, k, m,
                                  DataShard(blocks[i]), "Original")
            ELSE create_fec_frame(session_id, i - 1, k, m,
                                  ParityShard(blocks, i - k), "Redundant")]

---------------------------------------------------------------------------
(* The reassembler (src/src/fec/reassembler.rs) *)

\* A SessionState: the variant and the fields of every variant.
Collecting(received_blocks, received_count, start_time) ==
    [state |-> "Collecting", received_blocks |-> received_blocks,
     received_count |-> received_count, start_time |-> start_time,
     original_data |-> <<>>, time |-> 0]

Decoding ==
    [state |-> "Decoding", received_blocks |-> <<>>, received_count |-> 0,
     start_time |-> 0, original_data |-> <<>>, time |-> 0]

Completed(original_data, recovery_time) ==
    [state |-> "Completed", received_blocks |-> <<>>, received_count |-> 0,
     start_time |-> 0, original_data |-> original_data,
     time |-> recovery_time]

Failed(failure_time) ==
    [state |-> "Failed", received_blocks |-> <<>>, received_count |-> 0,
     start_time |-> 0, original_data |-> <<>>, time |-> failure_time]

NoOp ==
    [kind |-> "NoOp", blocks |-> <<>>, received_count |-> 0,
     start_time |-> 0, k |-> 0, m |-> 0]

DecodeRequired(blocks, received_count, start_time, k, m) ==
    [kind |-> "DecodeRequired", blocks |-> blocks,
     received_count |-> received_count, start_time |-> start_time,
     k |-> k, m |-> m]

\* SessionManager::new inside FECReassembler::new; the float average of the
\* statistics is not part of the model.
FECReassembler_new(k, m) ==
    [sessions |-> <<>>,
     stats |-> [total_sessions |-> 0, successful_recoveries |-> 0,
                failed_recoveries |-> 0, pending_sessions |-> 0],
     pending_messages |-> <<>>, k |-> k, m |-> m]

\* HashMap::insert and HashMap::remove on maps kept as functions
MapInsert(map, key, value) == (key :> value) @@ map

MapRemove(map, keys) == [x \in (DOMAIN map) \ keys |-> map[x]]

\* handle_existing_session without the test for a block already received.
handle_existing_session_counting_duplicates(state, frame) ==
    IF state.state = "Collecting"
    THEN LET received_blocks == MapInsert(state.received_blocks,
                                          frame.block_index, frame.payload)
             received_count  == state.received_count + 1
         IN  IF received_count >= frame.k
             THEN [state |-> Decoding,
                   op |-> DecodeRequired(received_blocks, received_count,
                                         state.start_time, frame.k, frame.m)]
             ELSE [state |-> Collecting(received_blocks, received_count,
                                        state.start_time),
                   op |-> NoOp]
    ELSE [state |-> state, op |-> NoOp]

handle_existing_session(state, frame) ==
    IF state.state = "Collecting"
    THEN IF frame.block_index \in DOMAIN state.received_blocks
         THEN [state |-> state, op |-> NoOp]
         ELSE LET received_blocks == MapInsert(state.received_blocks,
                                               frame.block_index, frame.payload)
                  received_count  == state.received_count + 1
              IN  IF received_count >= frame.k
                  THEN [state |-> Decoding,
                        op |-> DecodeRequired(received_blocks, received_count,
                                              state.start_time, frame.k, frame.m)]
                  ELSE [state |-> Collecting(received_blocks, received_count,
                                             state.start_time),
                        op |-> NoOp]
    ELSE [state |-> state, op |-> NoOp]

handle_new_session(r, session_id, frame, t) ==
    [r EXCEPT
        !.sessions = MapInsert(@, session_id,
                        Collecting(MapInsert(<<>>, frame.block_index, frame.payload),
                                   1, t)),
        !.stats.total_sessions = @ + 1,
        !.stats.pending_sessions = @ + 1]

process_new_frame(r, session_id, frame, t) ==
    IF session_id \in DOMAIN r.sessions
    THEN LET h == handle_existing_session(r.sessions[session_id], frame)
         IN  [r  |-> [r EXCEPT !.sessions = MapInsert(@, session_id, h.state)],
              op |-> h.op]
    ELSE [r |-> handle_new_session(r, session_id, frame, t), op |-> NoOp]

mark_session_completed(r, session_id, original_data, recovery_time) ==
    IF session_id \in DOMAIN r.sessions
    THEN [r EXCEPT
            !.sessions = MapInsert(@, session_id,
                                   Completed(original_data, recovery_time)),
            !.stats.successful_recoveries = @ + 1,
            !.stats.pending_sessions = @ - 1]
    ELSE r

mark_session_failed(r, session_id, t) ==
    IF session_id \in DOMAIN r.sessions
    THEN [r EXCEPT
            !.sessions = MapInsert(@, session_id, Failed(t)),
            !.stats.failed_recoveries = @ + 1,
            !.stats.pending_sessions = @ - 1]
    ELSE r

restore_to_collecting(r, session_id, blocks, received_count, start_time) ==
    IF session_id \in DOMAIN r.sessions
    THEN [r EXCEPT
            !.sessions = MapInsert(@, session_id,
                                   Collecting(blocks, received_count, start_time))]
    ELSE r

\* The sessions cleanup_timeout_sessions removes at time t.
TimedOut(r, t) ==
    {id \in DOMAIN r.sessions :
        LET st == r.sessions[id]
        IN  \/ st.state = "Collecting" /\ t - st.start_time > session_timeout
            \/ st.state \in {"Failed", "Completed"}
               /\ t - st.time > session_cleanup_timeout}

cleanup_timeout_sessions(r, t) ==
    LET expired == {id \in TimedOut(r, t) : r.sessions[id].state = "Collecting"}
    IN  [r EXCEPT
            !.sessions = MapRemove(@, TimedOut(r, t)),
            !.stats.failed_recoveries = @ + Cardinality(expired),
            !.stats.pending_sessions = @ - Cardinality(expired)]

\* Bytes that reconstruct computes from shards of different codewords.
UnknownBlock(len) == [j \in 1..len |-> 256]

\* rs.reconstruct: the k data shards, the missing ones filled in from a
\* parity shard; an error for fewer than k shards or shards of unequal size.
reconstruct(received_blocks, k, m) ==
    LET present  == DOMAIN received_blocks
        lens     == {received_blocks[i].len : i \in present}
        parities == {i \in present : received_blocks[i].parity > 0}
        src      == received_blocks[CHOOSE i \in parities : TRUE].of
        agree    == /\ \A i \in parities : received_blocks[i].of = src
                    /\ \A i \in present \ parities :
                          received_blocks[i].bytes = src[i + 1]
    IN  IF Cardinality(present) < k \/ Cardinality(lens) # 1 \/ 0 \in lens
        THEN [res |-> "Err", data |-> <<>>]
        ELSE [res |-> "Ok",
              data |-> [b \in 1..k |->
                          IF (b - 1) \in present
                          THEN received_blocks[b - 1].bytes
                          ELSE IF agree THEN src[b]
                          ELSE UnknownBlock(CHOOSE l \in lens : TRUE)]]

RECURSIVE Concat(_)
Concat(blocks) ==
    IF blocks = <<>> THEN <<>>
    ELSE blocks[1] \o Concat(Tail(blocks))

decode_fec_data(received_blocks, k, m) ==
    LET rec == reconstruct(received_blocks, k, m)
    IN  IF FECEncoder_new(k, m) = "Err"
        THEN [res |-> "Err", data |-> <<>>]
        ELSE IF \E index \in DOMAIN received_blocks : index >= k + m
        THEN [res |-> "Err", data |-> <<>>]
        ELSE IF Cardinality(DOMAIN received_blocks) < k
        THEN [res |-> "Err", data |-> <<>>]
        ELSE IF rec.res = "Err"
        THEN [res |-> "Err", data |-> <<>>]
        ELSE IF Concat(rec.data) = <<>>
        THEN [res |-> "Err", data |-> <<>>]
        ELSE [res |-> "Ok", data |-> Concat(rec.data)]

NoMessage ==
    [session_id |-> 0, original_data |-> <<>>, recovery_time |-> 0,
     blocks_used |-> 0, blocks_total |-> 0]

perform_decoding(r, session_id, op, frame, t) ==
    LET dec     == decode_fec_data(op.blocks, op.k, op.m)
        message == [session_id |-> session_id, original_data |-> dec.data,
                    recovery_time |-> t, blocks_used |-> op.received_count,
                    blocks_total |-> frame.k + frame.m]
        done    == mark_session_completed(r, session_id, dec.data, t)
    IN  IF dec.res = "Ok"
        THEN [r   |-> [done EXCEPT !.pending_messages = Append(@, message)],
              res |-> "Some", message |-> message]
        ELSE IF t - op.start_time > session_timeout
        THEN [r |-> mark_session_failed(r, session_id, t),
              res |-> "Err", message |-> NoMessage]
        ELSE [r |-> restore_to_collecting(r, session_id, op.blocks,
                                          op.received_count, op.start_time),
              res |-> "None", message |-> NoMessage]

process_fec_frame(r, frame, t) ==
    LET session_id == frame.session_id
        step       == process_new_frame(r, session_id, frame, t)
    IN  IF step.op.kind = "NoOp"
        THEN [r |-> step.r, res |-> "None", message |-> NoMessage]
        ELSE perform_decoding(step.r, session_id, step.op, frame, t)

---------------------------------------------------------------------------
(* The stream pool (src/src/stream/pool.rs).  HashMaps are functions, the  *)
(* free queue is a sequence, Option<u64>::None is NoStream.                *)

NoStream == -1

StreamPool_new(max_streams) ==
    [stream_states |-> <<>>, free_streams |-> <<>>,
     high_priority_streams |-> {}, low_priority_streams |-> {},
     next_stream_id |-> 0, max_streams |-> max_streams,
     last_activity |-> <<>>]

mark_stream_used(p, stream_id, is_high_priority) ==
    [p EXCEPT
        !.stream_states = MapInsert(@, stream_id,
                             IF is_high_priority THEN "HighPriority"
                             ELSE "LowPriority"),
        !.high_priority_streams =
            IF is_high_priority THEN @ \cup {stream_id} ELSE @,
        !.low_priority_streams =
            IF is_high_priority THEN @ ELSE @ \cup {stream_id}]

update_activity(p, stream_id, t) ==
    [p EXCEPT !.last_activity = MapInsert(@, stream_id, t)]

\* The key of min_by_key: last_activity.get(&id).copied(), None before Some.
ActivityKey(p, stream_id) ==
    IF stream_id \in DOMAIN p.last_activity
    THEN p.last_activity[stream_id] ELSE -1

\* find_stream_to_preempt taking the Low slot of greatest last_activity.
find_stream_to_preempt_most_recent(p) ==
    {id \in p.low_priority_streams :
        \A other \in p.low_priority_streams :
            ActivityKey(p, id) >= ActivityKey(p, other)}

\* The slots find_stream_to_preempt can return: the Low slots of minimal
\* key (which of several the HashSet iteration meets first is not fixed).
find_stream_to_preempt(p) ==
    {id \in p.low_priority_streams :
        \A other \in p.low_priority_streams :
            ActivityKey(p, id) <= ActivityKey(p, other)}

\* The results of find_stream_to_preempt as Option values.
Victims(p) ==
    IF find_stream_to_preempt(p) = {} THEN {NoStream}
    ELSE find_stream_to_preempt(p)

preempt_stream(p, stream_id) ==
    [p EXCEPT
        !.stream_states = MapInsert(@, stream_id, "HighPriority"),
        !.low_priority_streams = @ \ {stream_id},
        !.high_priority_streams = @ \cup {stream_id}]

\* The quota test of acquire_stream with <= for <.
has_quota_inclusive(p) ==
    Cardinality(DOMAIN p.stream_states) <= p.max_streams

\* stream_states.len() < max_streams
has_quota(p) ==
    Cardinality(DOMAIN p.stream_states) < p.max_streams

\* acquire_stream at time t; victim is what find_stream_to_preempt returns.
acquire_stream(p, is_high_priority, t, victim) ==
    IF p.free_streams # <<>>
    THEN LET stream_id == Head(p.free_streams)
             popped    == [p EXCEPT !.free_streams = Tail(@)]
         IN  [pool |-> update_activity(
                          mark_stream_used(popped, stream_id, is_high_priority),
                          stream_id, t),
              id |-> stream_id, how |-> "free"]
    ELSE IF has_quota(p)
    THEN LET stream_id == p.next_stream_id
             minted    == [p EXCEPT
                             !.next_stream_id = @ + 4,
                             !.stream_states = MapInsert(@, stream_id, "Free")]
         IN  [pool |-> update_activity(
                          mark_stream_used(minted, stream_id, is_high_priority),
                          stream_id, t),
              id |-> stream_id, how |-> "new"]
    ELSE IF is_high_priority /\ p.low_priority_streams # {}
            /\ victim # NoStream
    THEN [pool |-> update_activity(preempt_stream(p, victim), victim, t),
          id |-> victim, how |-> "preempt"]
    ELSE [pool |-> p, id |-> NoStream, how |-> "none"]

\* release_stream pushing the slot on the free queue whatever its state.
release_stream_unchecked(p, stream_id, t) ==
    IF stream_id \in DOMAIN p.stream_states
    THEN update_activity(
            [p EXCEPT
                !.high_priority_streams = @ \ {stream_id},
                !.low_priority_streams = @ \ {stream_id},
                !.stream_states = MapInsert(@, stream_id, "Free"),
                !.free_streams = Append(@, stream_id)],
            stream_id, t)
    ELSE p

release_stream(p, stream_id, t) ==
    IF stream_id \in DOMAIN p.stream_states
    THEN IF p.stream_states[stream_id] \in {"HighPriority", "LowPriority"}
         THEN update_activity(
                 [p EXCEPT
                     !.high_priority_streams = @ \ {stream_id},
                     !.low_priority_streams = @ \ {stream_id},
                     !.stream_states = MapInsert(@, stream_id, "Free"),
                     !.free_streams = Append(@, stream_id)],
                 stream_id, t)
         ELSE p
    ELSE p

close_stream(p, stream_id) ==
    [p EXCEPT
        !.stream_states = MapRemove(@, {stream_id}),
        !.free_streams = SelectSeq(@, LAMBDA id : id # stream_id),
        !.high_priority_streams = @ \ {stream_id},
        !.low_priority_streams = @ \ {stream_id},
        !.last_activity = MapRemove(@, {stream_id})]

\* close_stream on every element of to_remove
RECURSIVE CloseAll(_, _)
CloseAll(p, to_remove) ==
    IF to_remove = {} THEN p
    ELSE LET stream_id == CHOOSE id \in to_remove : TRUE
         IN  CloseAll(close_stream(p, stream_id), to_remove \ {stream_id})

\* The slots cleanup_idle_streams closes at time t.
IdleStreams(p, t) ==
    {id \in DOMAIN p.last_activity :
        /\ t - p.last_activity[id] > idle_timeout
        /\ id \in DOMAIN p.stream_states
        /\ p.stream_states[id] = "Free"}

cleanup_idle_streams(p, t) == CloseAll(p, IdleStreams(p, t))

\* StreamPool::stats
stats(p) ==
    [total_streams |-> Cardinality(DOMAIN p.stream_states),
     free_streams |-> Len(p.free_streams),
     high_priority_streams |-> Cardinality(p.high_priority_streams),
     low_priority_streams |-> Cardinality(p.low_priority_streams),
     max_streams |-> p.max_streams]

---------------------------------------------------------------------------
(* Constructors of the scheduler and the manager (src/src/stream/).        *)

\* whisper::Priority, with the order of its wire values (Low = 0 .. Urgent = 3)
Priority == <<"Low", "Normal", "High", "Urgent">>

Priorities == {Priority[i] : i \in 1..Len(Priority)}

PriorityRank(priority) == CHOOSE i \in 1..Len(Priority) : Priority[i] = priority

\* StreamScheduler::new at time t
StreamScheduler_new(max_streams_per_connection, t) ==
    [pool |-> StreamPool_new(max_streams_per_connection),
     pending_tasks |-> [prio \in Priorities |-> <<>>],
     active_sessions |-> <<>>,
     last_priority_boost |-> t]

\* UnifiedStreamManager::new at time t; the time stamp of the statistics is
\* not part of the model.
UnifiedStreamManager_new(max_streams_per_connection, t) ==
    [stream_pool |-> StreamPool_new(max_streams_per_connection),
     stream_scheduler |-> StreamScheduler_new(max_streams_per_connection, t),
     reserved_streams |-> {},
     pending_normal_messages |-> <<>>,
     next_client_stream_id |-> 0,
     stats |-> [total_streams_allocated |-> 0, reserved_streams |-> 0,
                pending_normal_messages |-> 0, failed_allocations |-> 0]]

---------------------------------------------------------------------------
(* The stream scheduler (src/src/stream/scheduler.rs).  An FEC frame is    *)
(* the record of its session and block index; a pending queue that         *)
(* check_starvation removed from the map is the empty queue.               *)

is_high_priority(priority) == priority \in {"High", "Urgent"}

FECTask(frames, session_id, priority, enqueue_time) ==
    [frames |-> frames, session_id |-> session_id, priority |-> priority,
     enqueue_time |-> enqueue_time]

submit_fec_task(s, frames, session_id, priority, t) ==
    [s EXCEPT !.pending_tasks[priority] =
        Append(@, FECTask(frames, session_id, priority, t))]

\* Low -> Normal, Normal -> High, the others unchanged
Promoted(priority) ==
    IF priority = "Low" THEN "Normal"
    ELSE IF priority = "Normal" THEN "High"
    ELSE priority

\* A resubmission that raises every class by one, High included.
resubmit_uncapped(s, task, t) ==
    LET new_priority == IF task.priority = "High" THEN "Urgent"
                        ELSE Promoted(task.priority)
    IN  [s EXCEPT !.pending_tasks[new_priority] =
            <<FECTask(task.frames, task.session_id, new_priority, t)>> \o @]

resubmit_with_higher_priority(s, task, t) ==
    LET new_priority == IF PriorityRank(task.priority) < PriorityRank("High")
                        THEN Promoted(task.priority) ELSE task.priority
    IN  [s EXCEPT !.pending_tasks[new_priority] =
            <<FECTask(task.frames, task.session_id, new_priority, t)>> \o @]

\* One round of the loop of check_starvation: the whole queue moves up
\* when its front task waited longer than max_wait_time.
BoostQueue(s, priority, t) ==
    LET queue == s.pending_tasks[priority]
    IN  IF queue # <<>> /\ t - Head(queue).enqueue_time > max_wait_time
        THEN [s EXCEPT
                !.pending_tasks[Promoted(priority)] =
                    @ \o [i \in 1..Len(queue) |->
                            [queue[i] EXCEPT !.priority = Promoted(priority)]],
                !.pending_tasks[priority] = <<>>]
        ELSE s

check_starvation(s, t) ==
    IF t - s.last_priority_boost < BOOST_PERIOD
    THEN s
    ELSE [BoostQueue(BoostQueue(s, "Low", t), "Normal", t)
             EXCEPT !.last_priority_boost = t]

\* The loop of try_send over the frames of one task: the pools and the
\* (stream, frame) pairs it can end with, one per choice of preempted slots.
RECURSIVE AcquireFrames(_, _, _, _)
AcquireFrames(p, frames, is_high, t) ==
    IF frames = <<>>
    THEN {[pool |-> p, sent |-> <<>>]}
    ELSE UNION {
            LET r == acquire_stream(p, is_high, t, victim)
            IN  IF r.id = NoStream
                THEN {[pool |-> p, sent |-> <<>>]}
                ELSE {[pool |-> rest.pool,
                       sent |-> <<<<r.id, Head(frames)>>>> \o rest.sent] :
                        rest \in AcquireFrames(r.pool, Tail(frames), is_high, t)}
            : victim \in Victims(p)}

\* The body of the task loop of a try_send that keeps every frame of a task
\* it satisfied in part.
TaskOutcomes_undrained(s, task, priority, t) ==
    IF t - task.enqueue_time > max_wait_time
    THEN {[s |-> resubmit_with_higher_priority(s, task, t),
           remaining |-> <<>>, result |-> <<>>]}
    ELSE {LET sent_count   == Len(a.sent)
              total_frames == Len(task.frames)
          IN  IF sent_count > 0
              THEN [s |-> [s EXCEPT
                             !.pool = a.pool,
                             !.active_sessions =
                                 MapInsert(@, task.session_id,
                                    [sent_frames |-> sent_count,
                                     total_frames |-> total_frames,
                                     assigned_streams |->
                                        [i \in 1..sent_count |-> a.sent[i][1]],
                                     start_time |-> t])],
                    remaining |->
                        IF sent_count < total_frames
                        THEN <<task>> ELSE <<>>,
                    result |-> a.sent]
              ELSE [s |-> s, remaining |-> <<task>>, result |-> <<>>]
          : a \in AcquireFrames(s.pool, task.frames,
                                is_high_priority(priority), t)}

\* The body of the task loop of try_send for one task of the queue
\* `priority`: the scheduler after it, the task kept for the queue (if any)
\* and the pairs to send.
TaskOutcomes(s, task, priority, t) ==
    IF t - task.enqueue_time > max_wait_time
    THEN {[s |-> resubmit_with_higher_priority(s, task, t),
           remaining |-> <<>>, result |-> <<>>]}
    ELSE {LET sent_count   == Len(a.sent)
              total_frames == Len(task.frames)
          IN  IF sent_count > 0
              THEN [s |-> [s EXCEPT
                             !.pool = a.pool,
                             !.active_sessions =
                                 MapInsert(@, task.session_id,
                                    [sent_frames |-> sent_count,
                                     total_frames |-> total_frames,
                                     assigned_streams |->
                                        [i \in 1..sent_count |-> a.sent[i][1]],
                                     start_time |-> t])],
                    remaining |->
                        IF sent_count < total_frames
                        THEN <<[task EXCEPT !.frames =
                                   SubSeq(@, sent_count + 1, total_frames)]>>
                        ELSE <<>>,
                    result |-> a.sent]
              ELSE [s |-> s, remaining |-> <<task>>, result |-> <<>>]
          : a \in AcquireFrames(s.pool, task.frames,
                                is_high_priority(priority), t)}

RECURSIVE TasksOutcomes(_, _, _, _, _, _)
TasksOutcomes(s, tasks_to_process, priority, t, remaining_tasks, result) ==
    IF tasks_to_process = <<>>
    THEN {[s |-> [s EXCEPT !.pending_tasks[priority] = @ \o remaining_tasks],
           result |-> result]}
    ELSE UNION {TasksOutcomes(o.s, Tail(tasks_to_process), priority, t,
                              remaining_tasks \o o.remaining,
                              result \o o.result)
                : o \in TaskOutcomes(s, Head(tasks_to_process), priority, t)}

\* The loop of try_send over the priorities, then cleanup_idle_streams.
RECURSIVE SendLoop(_, _, _, _)
SendLoop(s, priorities, t, result) ==
    IF priorities = <<>>
    THEN {[s |-> [s EXCEPT !.pool = cleanup_idle_streams(@, t)],
           result |-> result]}
    ELSE UNION {SendLoop(o.s, Tail(priorities), t, o.result)
                : o \in TasksOutcomes(
                           [s EXCEPT !.pending_tasks[Head(priorities)] = <<>>],
                           s.pending_tasks[Head(priorities)],
                           Head(priorities), t, <<>>, result)}

\* try_send going through the priorities from Low to Urgent.
try_send_ascending(s, t) ==
    SendLoop(check_starvation(s, t), <<"Low", "Normal", "High", "Urgent">>,
             t, <<>>)

\* try_send at time t: the set of its outcomes.
try_send(s, t) ==
    SendLoop(check_starvation(s, t), <<"Urgent", "High", "Normal", "Low">>,
             t, <<>>)

mark_frame_sent(s, stream_id, t) ==
    [s EXCEPT !.pool = release_stream(@, stream_id, t)]

\* release_stream on each of the assigned streams, in order
RECURSIVE ReleaseAll(_, _, _)
ReleaseAll(p, assigned_streams, t) ==
    IF assigned_streams = <<>> THEN p
    ELSE ReleaseAll(release_stream(p, Head(assigned_streams), t),
                    Tail(assigned_streams), t)

mark_session_complete(s, session_id, t) ==
    IF session_id \in DOMAIN s.active_sessions
    THEN [s EXCEPT
            !.pool = ReleaseAll(@, s.active_sessions[session_id].assigned_streams, t),
            !.active_sessions = MapRemove(@, {session_id})]
    ELSE s

---------------------------------------------------------------------------
(* The unified stream manager (src/src/stream/manager.rs) *)

is_stream_available(mg, stream_id) == stream_id \notin mg.reserved_streams

update_stats(mg) ==
    [mg EXCEPT
        !.stats.reserved_streams = Cardinality(mg.reserved_streams),
        !.stats.pending_normal_messages = Len(mg.pending_normal_messages)]

reserve_stream(mg, stream_id) ==
    IF is_stream_available(mg, stream_id)
    THEN [mgr |-> update_stats([mg EXCEPT !.reserved_streams = @ \cup {stream_id}]),
          ok |-> TRUE]
    ELSE [mgr |-> mg, ok |-> FALSE]

release_reserved_stream(mg, stream_id, t) ==
    update_stats([mg EXCEPT
                    !.reserved_streams = @ \ {stream_id},
                    !.stream_pool = release_stream(@, stream_id, t)])

\* find_available_stream returning whatever slot the pool hands out.
find_available_stream_unfiltered(mg, priority, is_high, t, victim) ==
    LET r == acquire_stream(mg.stream_pool, is_high, t, victim)
    IN  [mgr |-> [mg EXCEPT !.stream_pool = r.pool], id |-> r.id]

find_available_stream(mg, priority, is_high, t, victim) ==
    LET r == acquire_stream(mg.stream_pool, is_high, t, victim)
    IN  IF r.id = NoStream
        THEN [mgr |-> mg, id |-> NoStream]
        ELSE IF r.id \notin mg.reserved_streams
        THEN [mgr |-> [mg EXCEPT !.stream_pool = r.pool], id |-> r.id]
        ELSE [mgr |-> [mg EXCEPT !.stream_pool = release_stream(r.pool, r.id, t)],
              id |-> NoStream]

enqueue_normal_message(mg, data, priority, t) ==
    LET message == [data |-> data, priority |-> priority,
                    enqueue_time |-> t, retry_count |-> 0]
    IN  update_stats(
           [mg EXCEPT !.pending_normal_messages =
               IF priority \in {"Urgent", "High"}
               THEN <<message>> \o @ ELSE Append(@, message)])

allocate_stream_for_normal_message(mg, data, priority, t) ==
    LET f == find_available_stream(mg, priority, FALSE, t, NoStream)
    IN  IF f.id # NoStream
        THEN [mgr |-> update_stats(
                         [f.mgr EXCEPT !.stats.total_streams_allocated = @ + 1]),
              result |-> <<<<f.id, data>>>>]
        ELSE [mgr |-> [enqueue_normal_message(f.mgr, data, priority, t)
                          EXCEPT !.stats.failed_allocations = @ + 1],
              result |-> <<>>]

\* The loop of a process_pending_messages without the retry limit.
RECURSIVE PendingLoop_unlimited(_, _, _, _, _)
PendingLoop_unlimited(mg, queue, remaining_messages, result, t) ==
    IF queue = <<>>
    THEN [mgr |-> update_stats(
                     [mg EXCEPT !.pending_normal_messages = remaining_messages]),
          result |-> result]
    ELSE LET message == Head(queue)
             f       == find_available_stream(mg, message.priority, FALSE, t,
                                              NoStream)
         IN  IF t - message.enqueue_time > MESSAGE_TIMEOUT
             THEN PendingLoop_unlimited(mg, Tail(queue), remaining_messages,
                                        result, t)
             ELSE IF f.id # NoStream
             THEN PendingLoop_unlimited(
                     [f.mgr EXCEPT !.stats.total_streams_allocated = @ + 1],
                     Tail(queue), remaining_messages,
                     Append(result, <<f.id, message.data>>), t)
             ELSE PendingLoop_unlimited(
                     f.mgr, Tail(queue),
                     Append(remaining_messages,
                            [message EXCEPT !.retry_count = @ + 1]),
                     result, t)

\* The loop of process_pending_messages over the messages left in the queue.
RECURSIVE PendingLoop(_, _, _, _, _)
PendingLoop(mg, queue, remaining_messages, result, t) ==
    IF queue = <<>>
    THEN [mgr |-> update_stats(
                     [mg EXCEPT !.pending_normal_messages = remaining_messages]),
          result |-> result]
    ELSE LET message == Head(queue)
             f       == find_available_stream(mg, message.priority, FALSE, t,
                                              NoStream)
         IN  IF t - message.enqueue_time > MESSAGE_TIMEOUT
             THEN PendingLoop(mg, Tail(queue), remaining_messages, result, t)
             ELSE IF message.retry_count >= max_retry_count
             THEN PendingLoop(mg, Tail(queue), remaining_messages, result, t)
             ELSE IF f.id # NoStream
             THEN PendingLoop(
                     [f.mgr EXCEPT !.stats.total_streams_allocated = @ + 1],
                     Tail(queue), remaining_messages,
                     Append(result, <<f.id, message.data>>), t)
             ELSE PendingLoop(
                     f.mgr, Tail(queue),
                     Append(remaining_messages,
                            [message EXCEPT !.retry_count = @ + 1]),
                     result, t)

process_pending_messages(mg, t) ==
    PendingLoop(mg, mg.pending_normal_messages, <<>>, <<>>, t)

\* allocate_streams_for_fec at time t: the set of its outcomes.
allocate_streams_for_fec(mg, frames, session_id, priority, t) ==
    {[mgr |-> [update_stats(mg) EXCEPT !.stream_scheduler = o.s],
      result |-> o.result] :
        o \in try_send(submit_fec_task(mg.stream_scheduler, frames,
                                       session_id, priority, t), t)}

\* UnifiedStreamManager::mark_frame_sent
UnifiedStreamManager_mark_frame_sent(mg, stream_id, t) ==
    update_stats(
        [mg EXCEPT !.stream_scheduler = mark_frame_sent(@, stream_id, t)])

\* UnifiedStreamManager::mark_session_complete
UnifiedStreamManager_mark_session_complete(mg, session_id, t) ==
    update_stats(
        [mg EXCEPT !.stream_scheduler =
                      mark_session_complete(@, session_id, t)])

get_next_client_stream_id(mg) ==
    [mgr |-> [mg EXCEPT !.next_client_stream_id = @ + 4],
     id |-> mg.next_client_stream_id]

\* UnifiedStreamManager::cleanup
cleanup(mg, t) ==
    update_stats([mg EXCEPT !.stream_pool = cleanup_idle_streams(@, t)])

---------------------------------------------------------------------------
(* Inputs *)

Seeds == {<<b>> : b \in 1..NumSeeds}

RatchetIntervals == {1, 2}

Configs ==
    [enable_sequence_hint : BOOLEAN,
     enable_double_ratchet : BOOLEAN,
     ratchet_interval : RatchetIntervals]

\* Payloads of the round-trip specification: the empty payload, a short one,
\* and the two sizes at the parser's 10 MiB limit on the sealed body.
PayloadsRT ==
    {[id |-> 1, len |-> 0], [id |-> 2, len |-> 1],
     [id |-> 3, len |-> MAX_FRAME_BODY - TAG_LEN],
     [id |-> 4, len |-> MAX_FRAME_BODY - TAG_LEN + 1]}

Payloads == {[id |-> 1, len |-> 0], [id |-> 2, len |-> 1]}

\* Payloads of the stream specification: the short ones, and one whose frame
\* is larger than the parser's buffer.
PayloadsS == Payloads \cup {[id |-> 3, len |-> MAX_FRAME_BODY - TAG_LEN]}

NoCall ==
    [op |-> "none", res |-> "none", payload |-> NoPayload, consumed |-> 0,
     idx |-> 0, data_len |-> 0, before |-> SaltGenerator_new(<<>>),
     inner |-> SaltGenerator_new(<<>>)]

NoHist ==
    [s0 |-> 0, r0 |-> 0, dropped |-> 0, calls |-> 0, cut |-> FALSE,
     failed |-> FALSE, sent |-> 0, torn |-> FALSE, cleared |-> FALSE,
     lost |-> {}]

\* An empty Vec<u8>.  A buffer is the frames whose bytes it holds, oldest
\* first (the last one possibly in part), its length in bytes, and the
\* number of bytes at its front that are the tail of a frame whose head
\* was cleared away.
NoBuffer == [frames |-> <<>>, len |-> 0, skew |-> 0]

\* Inputs of encode: empty, one byte, and the shortest input that does not
\* fit one 64-byte block together with its length prefix.
InputsFEC == {<<>>, <<7>>, [i \in 1..61 |-> i]}

NoEncoded == [res |-> "none", input |-> <<>>, k |-> 0, m |-> 0, frames |-> <<>>]

\* A frame whose payload changed on the way: the xxhash64 field is the hash
\* of the payload that was sent.
Tamper(payload) ==
    IF payload.parity = 0
    THEN [payload EXCEPT !.bytes[1] = (@ + 1) % 256]
    ELSE [payload EXCEPT !.of[1][1] = (@ + 1) % 256]

CorruptFrame(frame) == [frame EXCEPT !.payload = Tamper(@)]

\* A frame of the session whose block_index is k + m, its hash computed by
\* create_fec_frame.
OutOfRangeFrame(frame) ==
    create_fec_frame(frame.session_id, frame.k + frame.m, frame.k, frame.m,
                     frame.payload, frame.block_type)

\* The frames that reach process_fec_frame: the encoded ones, and for the
\* first encoded frame a corrupt copy and an out-of-range copy.
FeedFrames(frames) ==
    {[kind |-> "sent", frame |-> frames[i]] : i \in 1..Len(frames)}
    \cup {[kind |-> "corrupt", frame |-> CorruptFrame(frames[1])],
          [kind |-> "out_of_range", frame |-> OutOfRangeFrame(frames[1])]}

NoFed == [idx |-> 0, kind |-> "none", was |-> "none", dup |-> FALSE]

NoFout ==
    [calls |-> 0, fed |-> {}, bad |-> {}, dups |-> 0, last |-> NoFed,
     res |-> "none",
     message |-> NoMessage, returned |-> <<>>, cleaned |-> FALSE, ticks |-> 0]

\* No FEC traffic: the state of the FEC variables in the framing
\* specifications.
FecIdle ==
    /\ enc = NoEncoded
    /\ reasm = FECReassembler_new(0, 0)
    /\ now = 0
    /\ fout = NoFout

\* The stream ids the model passes to the pool: the ones it can mint and
\* one more.
StreamIds == {4 * i : i \in 0..MaxMinted}

NoSout ==
    [op |-> "none", is_high |-> FALSE, id |-> NoStream, how |-> "none",
     ok |-> FALSE, result |-> <<>>, before |-> StreamPool_new(0),
     reserved_before |-> {}, calls |-> 0, ticks |-> 0,
     sid |-> 0, submitted |-> <<>>, dispatched |-> <<>>, owner |-> <<>>,
     held |-> {}, sent_at |-> -1, gap |-> FALSE, sent |-> <<>>]

\* No stream traffic: the state of the stream variables in the framing and
\* FEC specifications.
StreamsIdle ==
    /\ pool = StreamPool_new(0)
    /\ sched = StreamScheduler_new(0, 0)
    /\ mgr = UnifiedStreamManager_new(0, 0)
    /\ clock = 0
    /\ sout = NoSout

\* No framing traffic: the state of the framing variables in the other
\* specifications.
FramingIdle ==
    /\ config = [enable_sequence_hint |-> TRUE,
                 enable_double_ratchet |-> FALSE, ratchet_interval |-> 1]
    /\ sgen = SaltGenerator_new(<<1>>)
    /\ rgen = SaltGenerator_new(<<1>>)
    /\ wire = <<>>
    /\ built = <<>>
    /\ buffer = NoBuffer
    /\ yielded = <<>>
    /\ last = NoCall
    /\ hist = NoHist

---------------------------------------------------------------------------
(* Operations shared by the specifications *)

\* build_dynamic_frame on the sender's generator; the frame goes on the wire.
Build(payloads) ==
    /\ Len(built) < MaxFrames
    /\ \E p \in payloads :
       \E e \in (IF is_ratchet_frame(config, sgen.sequence)
                 THEN 1..NumEntropy ELSE {1}) :
          LET b == build_dynamic_frame(sgen, p, config, e)
          IN  /\ sgen' = b.gen
              /\ built' = Append(built, [payload |-> p, frame |-> b.frame,
                                         seq |-> sgen.sequence, gen |-> b.gen])
              /\ wire' = Append(wire, Len(built) + 1)
    /\ UNCHANGED <<config, rgen, buffer, yielded, last, hist>>
    /\ UNCHANGED fec
    /\ UNCHANGED streams

\* parse_dynamic_frame on the first `len` bytes of the oldest frame on the
\* wire.  A whole frame leaves the wire whatever the outcome; a truncated
\* one stays for a later call.
ParseData(len) ==
    LET idx == wire[1]
        f   == built[idx].frame
    IN  \E r \in {parse_dynamic_frame(rgen, Data(f, len), config)} :
        /\ hist.calls < MaxCalls
        /\ rgen' = r.gen
        /\ last' = [op |-> "parse", res |-> r.res, payload |-> r.payload,
                    consumed |-> r.consumed, idx |-> idx, data_len |-> len,
                    before |-> rgen, inner |-> r.gen]
        /\ yielded' = IF r.res = "Ok" THEN Append(yielded, idx) ELSE yielded
        /\ wire' = IF len = FrameLen(f) THEN Tail(wire) ELSE wire
        /\ hist' = [hist EXCEPT !.calls = @ + 1,
                                !.cut = @ \/ len < FrameLen(f),
                                !.failed = @ \/ r.res \notin {"Ok", "IncompleteData"}]
        /\ UNCHANGED <<config, sgen, built, buffer>>
        /\ UNCHANGED fec
        /\ UNCHANGED streams

---------------------------------------------------------------------------
(* SpecRT: one frame built and parsed whole, the two generators created    *)
(* from the same seed and set to start sequences drawn independently.      *)

InitRT ==
    /\ config \in Configs
    /\ \E seed \in Seeds, s0 \in 0..MaxStartSeq, r0 \in 0..MaxStartSeq :
          /\ sgen = set_sequence(SaltGenerator_new(seed), s0)
          /\ rgen = set_sequence(SaltGenerator_new(seed), r0)
          /\ hist = [NoHist EXCEPT !.s0 = s0, !.r0 = r0]
    /\ wire = <<>>
    /\ built = <<>>
    /\ buffer = NoBuffer
    /\ yielded = <<>>
    /\ last = NoCall
    /\ FecIdle
    /\ StreamsIdle

BuildRT == built = <<>> /\ Build(PayloadsRT)

ParseRT == wire # <<>> /\ ParseData(FrameLen(built[wire[1]].frame))

NextRT == BuildRT \/ ParseRT

SpecRT == InitRT /\ [][NextRT]_vars

---------------------------------------------------------------------------
(* SpecFrame: a sender and a receiver created from the same seed; frames   *)
(* are built in order, some are dropped whole before delivery, and the     *)
(* receiver calls parse_dynamic_frame on the oldest frame left, whole or   *)
(* truncated.  hist.lost holds the frames dropped before the receiver read *)
(* any byte of them.                                                       *)

InitFrame ==
    /\ config \in Configs
    /\ \E seed \in Seeds :
          /\ sgen = SaltGenerator_new(seed)
          /\ rgen = SaltGenerator_new(seed)
    /\ hist = NoHist
    /\ wire = <<>>
    /\ built = <<>>
    /\ buffer = NoBuffer
    /\ yielded = <<>>
    /\ last = NoCall
    /\ FecIdle
    /\ StreamsIdle

\* A frame is lost before it reaches the receiver.
Drop ==
    /\ wire # <<>>
    /\ wire' = Tail(wire)
    /\ hist' = [hist EXCEPT
                   !.dropped = @ + 1,
                   !.lost = IF last.op = "parse" /\ last.idx = wire[1]
                            THEN @ ELSE @ \cup {wire[1]}]
    /\ UNCHANGED <<config, sgen, rgen, built, buffer, yielded, last>>
    /\ UNCHANGED fec
    /\ UNCHANGED streams

\* Lengths at which a frame is cut: below every header size, and one byte
\* short of the whole frame (the header whole, the body not).
TruncLens(f) == {3, FrameLen(f) - 1}

BuildF == Build(Payloads)

ParseWholeF == wire # <<>> /\ ParseData(FrameLen(built[wire[1]].frame))

ParseTruncF ==
    /\ wire # <<>>
    /\ \E n \in TruncLens(built[wire[1]].frame) : ParseData(n)

NextFrame == BuildF \/ Drop \/ ParseWholeF \/ ParseTruncF

SpecFrame == InitFrame /\ [][NextFrame]_vars

---------------------------------------------------------------------------
(* Spec: the DynamicStreamParser.  The frames built on one generator are   *)
(* one byte stream; the stream reaches append_data in chunks cut at any of *)
(* the CutPoints of each frame, and try_parse_next is called at any time.  *)
(* hist.sent is the number of bytes of the oldest frame on the wire that   *)
(* were handed to append_data, hist.torn whether those bytes were cleared  *)
(* from the buffer.                                                        *)

CutPoints(f) == TruncLens(f) \cup {FrameLen(f)}

\* Bytes that are the middle of a frame: ciphertext, read as a header.
Garbage ==
    {[NoFrame EXCEPT !.obf_len = [hi |-> g, lo |-> g], !.hint = <<g>>] :
        g \in {0, 65535}}

\* Vec::clear
clear(buf) == NoBuffer

\* append_data without the test against max_buffer_size.
append_data_unbounded(buf, n, idx, first, torn) ==
    [res |-> "Ok",
     buffer |-> [frames |-> IF torn THEN buf.frames
                            ELSE IF first THEN Append(buf.frames, idx)
                            ELSE buf.frames,
                 len    |-> buf.len + n,
                 skew   |-> IF torn THEN buf.skew + n ELSE buf.skew]]

\* DynamicStreamParser::append_data of `n` bytes; `idx` is the frame they
\* belong to, `first` whether they start it, `torn` whether its head is gone.
append_data(buf, n, idx, first, torn) ==
    IF buf.len + n > max_buffer_size
    THEN [res |-> "InvalidLength", buffer |-> clear(buf)]
    ELSE [res |-> "Ok",
          buffer |-> [frames |-> IF torn THEN buf.frames
                                 ELSE IF first THEN Append(buf.frames, idx)
                                 ELSE buf.frames,
                      len    |-> buf.len + n,
                      skew   |-> IF torn THEN buf.skew + n ELSE buf.skew]]

\* DynamicStreamParser::try_parse_next on the buffer read as `data`.
try_parse_next(buf, generator, data, cfg) ==
    LET start_seq == generator.sequence
        r == parse_dynamic_frame(generator, data, cfg)
    IN  IF r.res = "Ok"
        THEN [res |-> "Some", payload |-> r.payload, inner |-> r.gen,
              generator |-> r.gen,
              buffer |-> [frames |-> Tail(buf.frames),
                          len    |-> buf.len - r.consumed,
                          skew   |-> 0]]
        ELSE IF r.res = "IncompleteData"
        THEN [res |-> "None", payload |-> NoPayload, inner |-> r.gen,
              generator |-> [r.gen EXCEPT !.sequence = start_seq],
              buffer |-> buf]
        ELSE [res |-> r.res, payload |-> NoPayload, inner |-> r.gen,
              generator |-> r.gen,
              buffer |-> clear(buf)]

\* What parse_dynamic_frame reads at the front of the buffer.
BufferHeads(buf) ==
    IF buf.skew > 0 THEN Garbage
    ELSE IF buf.frames = <<>> THEN {NoFrame}
    ELSE {built[buf.frames[1]].frame}

InitS == InitFrame

BuildS == Len(built) < MaxStreamFrames /\ Build(PayloadsS)

AppendData ==
    /\ wire # <<>>
    /\ LET idx == wire[1]
           f   == built[idx].frame
       IN  \E c \in CutPoints(f) :
           /\ c > hist.sent
           /\ \E r \in {append_data(buffer, c - hist.sent, idx,
                                    hist.sent = 0, hist.torn)} :
              /\ buffer' = r.buffer
              /\ last' = [NoCall EXCEPT !.op = "append_data", !.res = r.res,
                                        !.idx = idx, !.data_len = c - hist.sent,
                                        !.before = rgen, !.inner = rgen]
              /\ wire' = IF c = FrameLen(f) THEN Tail(wire) ELSE wire
              /\ hist' = [hist EXCEPT
                            !.sent = IF c = FrameLen(f) THEN 0 ELSE c,
                            !.torn = c < FrameLen(f) /\ (@ \/ r.res # "Ok"),
                            !.failed = @ \/ r.res # "Ok"]
    /\ UNCHANGED <<config, sgen, rgen, built, yielded>>
    /\ UNCHANGED fec
    /\ UNCHANGED streams

TryParseNext ==
    /\ hist.calls < MaxCalls
    /\ \E head \in BufferHeads(buffer) :
       \E r \in {try_parse_next(buffer, rgen, Data(head, buffer.len), config)} :
          LET idx == IF buffer.frames # <<>> /\ buffer.skew = 0
                     THEN buffer.frames[1] ELSE 0
          IN  /\ rgen' = r.generator
              /\ buffer' = r.buffer
              /\ last' = [op |-> "try_parse_next", res |-> r.res,
                          payload |-> r.payload, consumed |-> 0, idx |-> idx,
                          data_len |-> buffer.len, before |-> rgen,
                          inner |-> r.inner]
              /\ yielded' = IF r.res = "Some" THEN Append(yielded, idx)
                            ELSE yielded
              /\ hist' = [hist EXCEPT
                            !.calls = @ + 1,
                            !.torn = IF r.res \in {"Some", "None"} THEN @
                                     ELSE hist.sent > 0,
                            !.failed = @ \/ r.res \notin {"Some", "None"}]
    /\ UNCHANGED <<config, sgen, wire, built>>
    /\ UNCHANGED fec
    /\ UNCHANGED streams

\* DynamicStreamParser::clear, called by the owner of the parser.
Clear ==
    /\ buffer # NoBuffer
    /\ buffer' = clear(buffer)
    /\ hist' = [hist EXCEPT !.torn = hist.sent > 0, !.cleared = TRUE]
    /\ last' = [NoCall EXCEPT !.op = "clear", !.before = rgen, !.inner = rgen]
    /\ UNCHANGED <<config, sgen, rgen, wire, built, yielded>>
    /\ UNCHANGED fec
    /\ UNCHANGED streams

Next == BuildS \/ AppendData \/ TryParseNext \/ Clear

Spec == InitS /\ [][Next]_vars

---------------------------------------------------------------------------
(* SpecLoss: sequence hint on, double ratchet off.  The sender builds      *)
(* frames the receiver never sees (hist.dropped of them), then one frame   *)
(* that the receiver parses whole.                                         *)

ConfigsL ==
    {c \in Configs : c.enable_sequence_hint /\ ~c.enable_double_ratchet}

InitL ==
    /\ config \in ConfigsL
    /\ \E seed \in Seeds :
          /\ sgen = SaltGenerator_new(seed)
          /\ rgen = SaltGenerator_new(seed)
    /\ hist = NoHist
    /\ wire = <<>>
    /\ built = <<>>
    /\ buffer = NoBuffer
    /\ yielded = <<>>
    /\ last = NoCall
    /\ FecIdle
    /\ StreamsIdle

\* build_dynamic_frame whose output never reaches the receiver.
LoseFrame ==
    /\ built = <<>>
    /\ hist.dropped < MaxLost
    /\ \E p \in Payloads :
          sgen' = build_dynamic_frame(sgen, p, config, 1).gen
    /\ hist' = [hist EXCEPT !.dropped = @ + 1]
    /\ UNCHANGED <<config, rgen, wire, built, buffer, yielded, last>>
    /\ UNCHANGED fec
    /\ UNCHANGED streams

BuildL == built = <<>> /\ Build(Payloads)

ParseL == wire # <<>> /\ ParseData(FrameLen(built[wire[1]].frame))

NextL == LoseFrame \/ BuildL \/ ParseL

SpecLoss == InitL /\ [][NextL]_vars

---------------------------------------------------------------------------
(* SpecMissed: sequence hint and double ratchet both on.  The sender       *)
(* builds frames in order, some are lost whole before the receiver reads   *)
(* a byte of them, and the receiver parses the others whole.               *)

ConfigsM ==
    {c \in Configs : c.enable_sequence_hint /\ c.enable_double_ratchet}

\* The short payloads, and one that makes a frame without rekey field as
\* long as the header of a frame with one.
PayloadsM == Payloads \cup {[id |-> 3, len |-> ENTROPY_LEN - TAG_LEN]}

InitM ==
    /\ config \in ConfigsM
    /\ \E seed \in Seeds :
          /\ sgen = SaltGenerator_new(seed)
          /\ rgen = SaltGenerator_new(seed)
    /\ hist = NoHist
    /\ wire = <<>>
    /\ built = <<>>
    /\ buffer = NoBuffer
    /\ yielded = <<>>
    /\ last = NoCall
    /\ FecIdle
    /\ StreamsIdle

BuildM ==
    /\ Len(built) < MaxLateFrames
    /\ \E p \in PayloadsM :
       \E e \in (IF is_ratchet_frame(config, sgen.sequence)
                 THEN 1..NumEntropy ELSE {1}) :
          LET b == build_dynamic_frame(sgen, p, config, e)
          IN  /\ sgen' = b.gen
              /\ built' = Append(built, [payload |-> p, frame |-> b.frame,
                                         seq |-> sgen.sequence, gen |-> b.gen])
              /\ wire' = Append(wire, Len(built) + 1)
    /\ UNCHANGED <<config, rgen, buffer, yielded, last, hist>>
    /\ UNCHANGED fec
    /\ UNCHANGED streams

ParseM == wire # <<>> /\ ParseData(FrameLen(built[wire[1]].frame))

NextM == BuildM \/ Drop \/ ParseM

SpecMissed == InitM /\ [][NextM]_vars

---------------------------------------------------------------------------
(* SpecBuild: build_dynamic_frame is called again and again on one         *)
(* generator, with a random source that can fail.  built records every    *)
(* call.                                                                   *)

InitB ==
    /\ config \in Configs
    /\ \E seed \in Seeds :
          /\ sgen = SaltGenerator_new(seed)
          /\ rgen = SaltGenerator_new(seed)
    /\ hist = NoHist
    /\ wire = <<>>
    /\ built = <<>>
    /\ buffer = NoBuffer
    /\ yielded = <<>>
    /\ last = NoCall
    /\ FecIdle
    /\ StreamsIdle

BuildB ==
    /\ Len(built) < MaxBuilds
    /\ \E p \in Payloads :
       \E e \in (IF is_ratchet_frame(config, sgen.sequence)
                 THEN {RngFailure} \cup 1..NumEntropy ELSE {1}) :
          LET b == build_dynamic_frame(sgen, p, config, e)
          IN  /\ sgen' = b.gen
              /\ built' = Append(built, [payload |-> p, frame |-> b.frame,
                                         seq |-> sgen.sequence, gen |-> b.gen,
                                         res |-> b.res, before |-> sgen])
    /\ UNCHANGED <<config, rgen, wire, buffer, yielded, last, hist>>
    /\ UNCHANGED fec
    /\ UNCHANGED streams

NextB == BuildB

SpecBuild == InitB /\ [][NextB]_vars

---------------------------------------------------------------------------
(* SpecFEC: one message is encoded; its frames reach process_fec_frame in  *)
(* any order, any of them more than once or never; time passes, and the    *)
(* owner calls cleanup_timeout_sessions and next_recovered_message.        *)

InitFEC ==
    /\ FramingIdle
    /\ FecIdle
    /\ StreamsIdle

\* FECEncoder::new(k, m) followed by encode(data) when new succeeds.
Encode ==
    /\ enc = NoEncoded
    /\ \E k \in 0..MaxK, m \in 0..MaxM, data \in InputsFEC,
          session_id \in 1..NumSessions :
          /\ enc' = IF FECEncoder_new(k, m) = "Err"
                    THEN [NoEncoded EXCEPT !.res = "Err", !.k = k, !.m = m]
                    ELSE [res |-> "Ok", input |-> data, k |-> k, m |-> m,
                          frames |-> encode(k, m, data, session_id)]
          /\ reasm' = FECReassembler_new(k, m)
    /\ UNCHANGED <<now, fout>>
    /\ UNCHANGED framing
    /\ UNCHANGED streams

\* The state of a session before a call: its variant, and whether it holds
\* the block index.
SessionWas(r, session_id) ==
    IF session_id \in DOMAIN r.sessions
    THEN r.sessions[session_id].state ELSE "none"

HoldsBlock(r, session_id, block_index) ==
    /\ session_id \in DOMAIN r.sessions
    /\ block_index \in DOMAIN r.sessions[session_id].received_blocks

\* process_fec_frame on one of the frames that reach the receiver.
Feed ==
    /\ enc.res = "Ok"
    /\ fout.calls < MaxFeeds
    /\ \E f \in FeedFrames(enc.frames) :
       \E p \in {process_fec_frame(reasm, f.frame, now)} :
          /\ reasm' = p.r
          /\ fout' = [fout EXCEPT
                        !.calls = @ + 1,
                        !.fed = IF f.kind = "sent"
                                THEN @ \cup {f.frame.block_index} ELSE @,
                        !.bad = IF f.kind = "sent" THEN @ ELSE @ \cup {f.kind},
                        !.dups = IF /\ SessionWas(reasm, f.frame.session_id)
                                          = "Collecting"
                                    /\ HoldsBlock(reasm, f.frame.session_id,
                                                  f.frame.block_index)
                                 THEN @ + 1 ELSE @,
                        !.last = [idx  |-> f.frame.block_index,
                                  kind |-> f.kind,
                                  was  |-> SessionWas(reasm, f.frame.session_id),
                                  dup  |-> HoldsBlock(reasm, f.frame.session_id,
                                                      f.frame.block_index)],
                        !.res = p.res,
                        !.message = p.message,
                        !.returned = IF p.res = "Some"
                                     THEN Append(@, p.message) ELSE @]
    /\ UNCHANGED <<enc, now>>
    /\ UNCHANGED framing
    /\ UNCHANGED streams

\* Time passes: to just after the session timeout, or just after the
\* cleanup timeout.
Tick ==
    /\ enc.res = "Ok"
    /\ fout.ticks < MaxTicks
    /\ \E d \in {session_timeout + 1, session_cleanup_timeout + 1} :
          now' = now + d
    /\ fout' = [fout EXCEPT !.ticks = @ + 1]
    /\ UNCHANGED <<enc, reasm>>
    /\ UNCHANGED framing
    /\ UNCHANGED streams

\* FECReassembler::cleanup_timeout_sessions
Cleanup ==
    /\ enc.res = "Ok"
    /\ reasm' = cleanup_timeout_sessions(reasm, now)
    /\ fout' = [fout EXCEPT !.cleaned = @ \/ TimedOut(reasm, now) # {}]
    /\ UNCHANGED <<enc, now>>
    /\ UNCHANGED framing
    /\ UNCHANGED streams

\* FECReassembler::next_recovered_message
NextRecovered ==
    /\ reasm.pending_messages # <<>>
    /\ reasm' = [reasm EXCEPT !.pending_messages = Tail(@)]
    /\ UNCHANGED <<enc, now, fout>>
    /\ UNCHANGED framing
    /\ UNCHANGED streams

NextFEC == Encode \/ Feed \/ Tick \/ Cleanup \/ NextRecovered

SpecFEC == InitFEC /\ [][NextFEC]_vars

---------------------------------------------------------------------------
(* SpecPool: one StreamPool; its owner calls acquire_stream,               *)
(* release_stream, close_stream and cleanup_idle_streams in any order      *)
(* while time passes.                                                      *)

InitPool ==
    /\ FramingIdle
    /\ FecIdle
    /\ \E n \in 0..MaxPoolStreams : pool = StreamPool_new(n)
    /\ sched = StreamScheduler_new(0, 0)
    /\ mgr = UnifiedStreamManager_new(0, 0)
    /\ clock = 0
    /\ sout = NoSout

AcquireStream ==
    /\ \E is_high \in BOOLEAN, victim \in Victims(pool) :
       \E r \in {acquire_stream(pool, is_high, clock, victim)} :
          /\ r.how = "new" => pool.next_stream_id < 4 * MaxMinted
          /\ pool' = r.pool
          /\ sout' = [sout EXCEPT !.op = "acquire_stream",
                                  !.is_high = is_high,
                                  !.id = r.id, !.how = r.how,
                                  !.before = pool]
    /\ UNCHANGED <<sched, mgr, clock>>
    /\ UNCHANGED <<framing, fec>>

ReleaseStream ==
    /\ \E stream_id \in StreamIds :
          /\ pool' = release_stream(pool, stream_id, clock)
          /\ sout' = [sout EXCEPT !.op = "release_stream", !.id = stream_id,
                                  !.how = "none", !.before = pool]
    /\ UNCHANGED <<sched, mgr, clock>>
    /\ UNCHANGED <<framing, fec>>

CloseStream ==
    /\ \E stream_id \in StreamIds :
          /\ pool' = close_stream(pool, stream_id)
          /\ sout' = [sout EXCEPT !.op = "close_stream", !.id = stream_id,
                                  !.how = "none", !.before = pool]
    /\ UNCHANGED <<sched, mgr, clock>>
    /\ UNCHANGED <<framing, fec>>

CleanupIdleStreams ==
    /\ pool' = cleanup_idle_streams(pool, clock)
    /\ sout' = [sout EXCEPT !.op = "cleanup_idle_streams", !.id = NoStream,
                            !.how = "none", !.before = pool]
    /\ UNCHANGED <<sched, mgr, clock>>
    /\ UNCHANGED <<framing, fec>>

\* Time passes: one second, or to just after the idle timeout.
TickPool ==
    /\ sout.ticks < MaxPoolTicks
    /\ \E d \in {1, idle_timeout + 1} : clock' = clock + d
    /\ sout' = [sout EXCEPT !.ticks = @ + 1]
    /\ UNCHANGED <<pool, sched, mgr>>
    /\ UNCHANGED <<framing, fec>>

NextPool ==
    AcquireStream \/ ReleaseStream \/ CloseStream \/ CleanupIdleStreams
    \/ TickPool

SpecPool == InitPool /\ [][NextPool]_vars

---------------------------------------------------------------------------
(* SpecMgr: one UnifiedStreamManager; the application reserves and         *)
(* releases stream ids, sends normal messages, retries the pending ones    *)
(* and cleans up, in any order, while time passes.                         *)

\* The ids the application reserves: two the pool mints and one it never
\* does.
ReservableIds == {0, 2, 4}

MessageData == 1..MaxMessages

InitMgr ==
    /\ FramingIdle
    /\ FecIdle
    /\ pool = StreamPool_new(0)
    /\ sched = StreamScheduler_new(0, 0)
    /\ \E n \in 0..MaxMgrStreams : mgr = UnifiedStreamManager_new(n, 0)
    /\ clock = 0
    /\ sout = NoSout

\* The record of a manager call: its name, argument and results, and the
\* pool and reservations it found.
MgrCall(op, stream_id, ok, result) ==
    [sout EXCEPT !.op = op, !.id = stream_id, !.ok = ok, !.result = result,
                 !.before = mgr.stream_pool,
                 !.reserved_before = mgr.reserved_streams,
                 !.calls = @ + 1]

ReserveStream ==
    /\ sout.calls < MaxMgrCalls
    /\ \E stream_id \in ReservableIds :
       \E r \in {reserve_stream(mgr, stream_id)} :
          /\ mgr' = r.mgr
          /\ sout' = MgrCall("reserve_stream", stream_id, r.ok, <<>>)
    /\ UNCHANGED <<pool, sched, clock>>
    /\ UNCHANGED <<framing, fec>>

ReleaseReservedStream ==
    /\ sout.calls < MaxMgrCalls
    /\ \E stream_id \in ReservableIds :
          /\ mgr' = release_reserved_stream(mgr, stream_id, clock)
          /\ sout' = MgrCall("release_reserved_stream", stream_id, TRUE, <<>>)
    /\ UNCHANGED <<pool, sched, clock>>
    /\ UNCHANGED <<framing, fec>>

AllocateNormal ==
    /\ sout.calls < MaxMgrCalls
    /\ mgr.stats.total_streams_allocated + mgr.stats.failed_allocations
          < MaxMessages
    /\ \E priority \in Priorities :
       \E r \in {allocate_stream_for_normal_message(
                    mgr,
                    mgr.stats.total_streams_allocated
                       + mgr.stats.failed_allocations + 1,
                    priority, clock)} :
          /\ mgr' = r.mgr
          /\ sout' = MgrCall("allocate_stream_for_normal_message", NoStream,
                             r.result # <<>>, r.result)
    /\ UNCHANGED <<pool, sched, clock>>
    /\ UNCHANGED <<framing, fec>>

ProcessPending ==
    /\ sout.calls < MaxMgrCalls
    /\ \E r \in {process_pending_messages(mgr, clock)} :
          /\ mgr' = r.mgr
          /\ sout' = MgrCall("process_pending_messages", NoStream,
                             r.result # <<>>, r.result)
    /\ UNCHANGED <<pool, sched, clock>>
    /\ UNCHANGED <<framing, fec>>

CleanupMgr ==
    /\ sout.calls < MaxMgrCalls
    /\ mgr' = cleanup(mgr, clock)
    /\ sout' = MgrCall("cleanup", NoStream, TRUE, <<>>)
    /\ UNCHANGED <<pool, sched, clock>>
    /\ UNCHANGED <<framing, fec>>

\* Time passes: one second, or to just after the message timeout.
TickMgr ==
    /\ sout.ticks < MaxMgrTicks
    /\ \E d \in {1, MESSAGE_TIMEOUT + 1} : clock' = clock + d
    /\ sout' = [sout EXCEPT !.ticks = @ + 1]
    /\ UNCHANGED <<pool, sched, mgr>>
    /\ UNCHANGED <<framing, fec>>

NextMgr ==
    ReserveStream \/ ReleaseReservedStream \/ AllocateNormal
    \/ ProcessPending \/ CleanupMgr \/ TickMgr

SpecMgr == InitMgr /\ [][NextMgr]_vars

---------------------------------------------------------------------------
(* SpecSched: one StreamScheduler; its owner submits FEC tasks, calls      *)
(* try_send, mark_frame_sent and mark_session_complete in any order while  *)
(* time passes.  sout keeps, for every session, when and how it was        *)
(* submitted and first dispatched, for every stream the session whose      *)
(* frame try_send last put on it, the pairs the latest try_send returned,  *)
(* and how often each frame was returned.                                  *)

\* The frames of a task: each names its session and its block.
TaskFrames(session_id, n) ==
    [i \in 1..n |-> [session_id |-> session_id, block_index |-> i - 1]]

InitSched ==
    /\ FramingIdle
    /\ FecIdle
    /\ pool = StreamPool_new(0)
    /\ \E n \in 1..MaxSchedStreams : sched = StreamScheduler_new(n, 0)
    /\ mgr = UnifiedStreamManager_new(0, 0)
    /\ clock = 0
    /\ sout = NoSout

\* The streams that carry a frame of the session and were not released.
HeldBy(owner, session_id) == {id \in DOMAIN owner : owner[id] = session_id}

\* The count of returns of every frame, after the pairs of `result`.
RECURSIVE Returned(_, _)
Returned(sent, result) ==
    IF result = <<>> THEN sent
    ELSE LET frame == Head(result)[2]
         IN  Returned(MapInsert(sent, frame,
                                IF frame \in DOMAIN sent
                                THEN sent[frame] + 1 ELSE 1),
                      Tail(result))

RECURSIVE Owners(_, _)
Owners(owner, result) ==
    IF result = <<>> THEN owner
    ELSE Owners(MapInsert(owner, Head(result)[1], Head(result)[2].session_id),
                Tail(result))

SubmitFecTask ==
    /\ Cardinality(DOMAIN sout.submitted) < MaxTasks
    /\ clock <= MaxBusyClock
    /\ \E priority \in Priorities, n \in 1..MaxTaskFrames :
       \E session_id \in {Cardinality(DOMAIN sout.submitted) + 1} :
          /\ sched' = submit_fec_task(sched, TaskFrames(session_id, n),
                                      session_id, priority, clock)
          /\ sout' = [sout EXCEPT
                        !.op = "submit_fec_task", !.sid = session_id,
                        !.submitted = MapInsert(@, session_id,
                                         [time |-> clock, priority |-> priority,
                                          frames |-> n])]
    /\ UNCHANGED <<pool, mgr, clock>>
    /\ UNCHANGED <<framing, fec>>

TrySend ==
    /\ \E o \in try_send(sched, clock) :
          /\ sched' = o.s
          /\ sout' = [sout EXCEPT
                        !.op = "try_send",
                        !.result = o.result,
                        !.sent = Returned(@, o.result),
                        !.owner = Owners(@, o.result),
                        !.dispatched =
                            [s \in DOMAIN @ \cup
                                   {o.result[i][2].session_id :
                                        i \in 1..Len(o.result)} |->
                                IF s \in DOMAIN @ THEN @[s] ELSE clock],
                        !.sent_at = clock]
    /\ UNCHANGED <<pool, mgr, clock>>
    /\ UNCHANGED <<framing, fec>>

MarkFrameSent ==
    /\ sout.calls < MaxSchedCalls
    /\ clock <= MaxBusyClock
    /\ \E stream_id \in DOMAIN sout.owner :
          /\ sched' = mark_frame_sent(sched, stream_id, clock)
          /\ sout' = [sout EXCEPT
                        !.op = "mark_frame_sent", !.id = stream_id,
                        !.calls = @ + 1,
                        !.owner = MapRemove(@, {stream_id})]
    /\ UNCHANGED <<pool, mgr, clock>>
    /\ UNCHANGED <<framing, fec>>

MarkSessionComplete ==
    /\ sout.calls < MaxSchedCalls
    /\ clock <= MaxBusyClock
    /\ \E session_id \in DOMAIN sout.dispatched :
          /\ sched' = mark_session_complete(sched, session_id, clock)
          /\ sout' = [sout EXCEPT
                        !.op = "mark_session_complete", !.sid = session_id,
                        !.calls = @ + 1,
                        !.held = HeldBy(sout.owner, session_id),
                        !.owner = MapRemove(@, HeldBy(sout.owner, session_id))]
    /\ UNCHANGED <<pool, mgr, clock>>
    /\ UNCHANGED <<framing, fec>>

\* Time passes.  The owner polls try_send every second; when it stalls,
\* the next call comes max_wait_time + 1 seconds later, and that is a gap.
TickSched ==
    /\ \E d \in {1, max_wait_time + 1} :
          /\ clock + d <= MaxSchedClock
          /\ d = 1 => sout.sent_at = clock
          /\ clock' = clock + d
          /\ sout' = [sout EXCEPT !.gap = @ \/ d > 1, !.ticks = @ + 1]
    /\ UNCHANGED <<pool, sched, mgr>>
    /\ UNCHANGED <<framing, fec>>

NextSched ==
    SubmitFecTask \/ TrySend \/ MarkFrameSent \/ MarkSessionComplete
    \/ TickSched

SpecSched == InitSched /\ [][NextSched]_vars

---------------------------------------------------------------------------
(* SpecUni: one UnifiedStreamManager carrying both kinds of traffic.  The  *)
(* application sends normal messages and FEC sessions, retries the pending *)
(* messages, and marks streams sent and sessions complete, in any order.   *)
(* sout.held is the set of streams issued for normal messages and not      *)
(* marked sent since, sout.owner the session of every stream issued for an *)
(* FEC frame and not marked since.                                         *)

InitUni ==
    /\ FramingIdle
    /\ FecIdle
    /\ pool = StreamPool_new(0)
    /\ sched = StreamScheduler_new(0, 0)
    /\ \E n \in 1..MaxUniStreams : mgr = UnifiedStreamManager_new(n, 0)
    /\ clock = 0
    /\ sout = NoSout

\* The stream ids of the pairs a call returned.
IdsOf(result) == {result[i][1] : i \in 1..Len(result)}

AllocateNormalU ==
    /\ sout.calls < MaxUniCalls
    /\ \E priority \in Priorities :
       \E r \in {allocate_stream_for_normal_message(mgr, sout.calls + 1,
                                                     priority, clock)} :
          /\ mgr' = r.mgr
          /\ sout' = [sout EXCEPT
                        !.op = "allocate_stream_for_normal_message",
                        !.id = NoStream, !.ok = r.result # <<>>,
                        !.result = r.result, !.calls = @ + 1,
                        !.held = @ \cup IdsOf(r.result)]
    /\ UNCHANGED <<pool, sched, clock>>
    /\ UNCHANGED <<framing, fec>>

ProcessPendingU ==
    /\ sout.calls < MaxUniCalls
    /\ mgr.pending_normal_messages # <<>>
    /\ \E r \in {process_pending_messages(mgr, clock)} :
          /\ mgr' = r.mgr
          /\ sout' = [sout EXCEPT
                        !.op = "process_pending_messages",
                        !.id = NoStream, !.ok = r.result # <<>>,
                        !.result = r.result, !.calls = @ + 1,
                        !.held = @ \cup IdsOf(r.result)]
    /\ UNCHANGED <<pool, sched, clock>>
    /\ UNCHANGED <<framing, fec>>

AllocateFecU ==
    /\ sout.calls < MaxUniCalls
    /\ Cardinality(DOMAIN sout.submitted) < MaxUniSessions
    /\ \E priority \in Priorities, n \in 1..MaxTaskFrames :
       \E session_id \in {Cardinality(DOMAIN sout.submitted) + 1} :
       \E r \in allocate_streams_for_fec(mgr, TaskFrames(session_id, n),
                                          session_id, priority, clock) :
          /\ mgr' = r.mgr
          /\ sout' = [sout EXCEPT
                        !.op = "allocate_streams_for_fec",
                        !.sid = session_id, !.id = NoStream,
                        !.ok = r.result # <<>>,
                        !.result = r.result, !.calls = @ + 1,
                        !.submitted = MapInsert(@, session_id,
                                         [time |-> clock, priority |-> priority,
                                          frames |-> n]),
                        !.owner = Owners(@, r.result)]
    /\ UNCHANGED <<pool, sched, clock>>
    /\ UNCHANGED <<framing, fec>>

MarkFrameSentU ==
    /\ sout.calls < MaxUniCalls
    /\ \E stream_id \in sout.held \cup DOMAIN sout.owner :
          /\ mgr' = UnifiedStreamManager_mark_frame_sent(mgr, stream_id, clock)
          /\ sout' = [sout EXCEPT
                        !.op = "mark_frame_sent", !.id = stream_id,
                        !.ok = stream_id \in sout.held,
                        !.result = <<>>, !.calls = @ + 1,
                        !.held = @ \ {stream_id},
                        !.owner = MapRemove(@, {stream_id})]
    /\ UNCHANGED <<pool, sched, clock>>
    /\ UNCHANGED <<framing, fec>>

MarkSessionCompleteU ==
    /\ sout.calls < MaxUniCalls
    /\ \E session_id \in DOMAIN sout.submitted :
          /\ mgr' = UnifiedStreamManager_mark_session_complete(
                        mgr, session_id, clock)
          /\ sout' = [sout EXCEPT
                        !.op = "mark_session_complete", !.sid = session_id,
                        !.id = NoStream, !.ok = TRUE,
                        !.result = <<>>, !.calls = @ + 1,
                        !.owner = MapRemove(@, HeldBy(sout.owner, session_id))]
    /\ UNCHANGED <<pool, sched, clock>>
    /\ UNCHANGED <<framing, fec>>

NextUni ==
    AllocateNormalU \/ ProcessPendingU \/ AllocateFecU \/ MarkFrameSentU
    \/ MarkSessionCompleteU

SpecUni == InitUni /\ [][NextUni]_vars

---------------------------------------------------------------------------
(* The critical sender (src/src/critical_sender.rs) over the scheduler of  *)
(* one registered connection.  The frames of the encoder are the records   *)
(* of their session and block index, k + m of them.                        *)

\* mark_frame_sent on each of the streams, in order
RECURSIVE MarkAllSent(_, _, _)
MarkAllSent(s, stream_ids, t) ==
    IF stream_ids = <<>> THEN s
    ELSE MarkAllSent(mark_frame_sent(s, Head(stream_ids), t),
                     Tail(stream_ids), t)

\* The loop of prepare_critical_message with `rounds` rounds left: each
\* round submits the whole frame list as a task, calls try_send, and marks
\* every stream it was given as sent.  An empty try_send ends the call
\* with an error after the streams collected so far were marked sent.
RECURSIVE AllocateLoop(_, _, _, _, _, _, _)
AllocateLoop(s, frames, session_id, priority, t, allocated_streams, rounds) ==
    IF rounds = 0
    THEN {[s |-> s, allocated_streams |-> allocated_streams, err |-> FALSE]}
    ELSE UNION {
           IF o.result = <<>>
           THEN {[s |-> MarkAllSent(o.s, allocated_streams, t),
                  allocated_streams |-> allocated_streams, err |-> TRUE]}
           ELSE LET scheduled == [i \in 1..Len(o.result) |-> o.result[i][1]]
                    marked    == MarkAllSent(o.s, scheduled, t)
                    collected == allocated_streams \o scheduled
                IN  IF Len(collected) >= Len(frames)
                    THEN {[s |-> marked, allocated_streams |-> collected,
                           err |-> FALSE]}
                    ELSE AllocateLoop(marked, frames, session_id, priority, t,
                                      collected, rounds - 1) :
           o \in try_send(submit_fec_task(s, frames, session_id, priority, t),
                          t)}

\* CriticalSender::prepare_critical_message on the scheduler s of the
\* connection, with an encoder of k + m frames: the set of its outcomes.
prepare_critical_message(s, k, m, session_id, priority, t) ==
    LET frames       == TaskFrames(session_id, k + m)
        total_frames == Len(frames)
    IN  {IF a.err
         THEN [s |-> a.s, ok |-> FALSE, result |-> <<>>]
         ELSE IF Len(a.allocated_streams) < total_frames
         THEN [s |-> MarkAllSent(a.s, a.allocated_streams, t),
               ok |-> FALSE, result |-> <<>>]
         ELSE [s |-> a.s, ok |-> TRUE,
               result |-> [i \in 1..total_frames |->
                              <<a.allocated_streams[i],
                                [frames[i] EXCEPT !.block_index = i - 1]>>]] :
           a \in AllocateLoop(s, frames, session_id, priority, t, <<>>,
                              total_frames)}

---------------------------------------------------------------------------
(* SpecCrit: a critical sender with one registered connection.  sched is   *)
(* the scheduler of the connection; sout.submitted holds the frame count   *)
(* of every prepared message, sout.result the pairs of the latest call.    *)

\* CriticalSender::new followed by register_connection
InitCrit ==
    /\ FramingIdle
    /\ FecIdle
    /\ pool = StreamPool_new(0)
    /\ \E n \in 0..MaxCritStreams : sched = StreamScheduler_new(n, 0)
    /\ mgr = UnifiedStreamManager_new(0, 0)
    /\ clock = 0
    /\ sout = NoSout

PrepareCritical ==
    /\ sout.calls < MaxCritCalls
    /\ \E k \in 1..MaxCritK, priority \in Priorities :
       \E session_id \in {Cardinality(DOMAIN sout.submitted) + 1} :
       \E o \in prepare_critical_message(sched, k, 1, session_id, priority,
                                         clock) :
          /\ sched' = o.s
          /\ sout' = [sout EXCEPT
                        !.op = "prepare_critical_message",
                        !.sid = session_id, !.ok = o.ok,
                        !.result = o.result, !.calls = @ + 1,
                        !.submitted = MapInsert(@, session_id,
                                         [time |-> clock, priority |-> priority,
                                          frames |-> k + 1])]
    /\ UNCHANGED <<pool, mgr, clock>>
    /\ UNCHANGED <<framing, fec>>

\* CriticalSender::mark_frame_sent for a stream of the latest message
MarkFrameSentC ==
    /\ sout.calls < MaxCritCalls
    /\ \E stream_id \in IdsOf(sout.result) :
          /\ sched' = mark_frame_sent(sched, stream_id, clock)
          /\ sout' = [sout EXCEPT
                        !.op = "mark_frame_sent", !.id = stream_id,
                        !.calls = @ + 1]
    /\ UNCHANGED <<pool, mgr, clock>>
    /\ UNCHANGED <<framing, fec>>

\* CriticalSender::mark_session_complete for a prepared message
MarkSessionCompleteC ==
    /\ sout.calls < MaxCritCalls
    /\ \E session_id \in DOMAIN sout.submitted :
          /\ sched' = mark_session_complete(sched, session_id, clock)
          /\ sout' = [sout EXCEPT
                        !.op = "mark_session_complete", !.sid = session_id,
                        !.calls = @ + 1]
    /\ UNCHANGED <<pool, mgr, clock>>
    /\ UNCHANGED <<framing, fec>>

NextCrit == PrepareCritical \/ MarkFrameSentC \/ MarkSessionCompleteC

SpecCrit == InitCrit /\ [][NextCrit]_vars

---------------------------------------------------------------------------
(* The C interface (src/src/capi.rs) with valid handles and pointers.  A   *)
(* return code is the integer the function returns.                        *)

\* silent_build_frame into an output buffer of out_max_len bytes: `frame`
\* is what the caller finds in out_buf.
silent_build_frame(generator, payload, cfg, entropy, out_max_len) ==
    LET b == build_dynamic_frame(generator, payload, cfg, entropy)
    IN  IF b.res = "Ok"
        THEN IF FrameLen(b.frame) > out_max_len
             THEN [ret |-> -2, frame |-> NoFrame, gen |-> b.gen]
             ELSE [ret |-> 0, frame |-> b.frame, gen |-> b.gen]
        ELSE [ret |-> -3, frame |-> NoFrame, gen |-> b.gen]

\* silent_parser_append
silent_parser_append(buf, n, idx) ==
    LET r == append_data(buf, n, idx, TRUE, FALSE)
    IN  [ret |-> IF r.res = "Ok" THEN 0 ELSE -4, buffer |-> r.buffer]

\* silent_parse_next into an output buffer of out_max_len bytes: `payload`
\* is what the caller finds in out_buf.
silent_parse_next(buf, generator, data, cfg, out_max_len) ==
    LET r == try_parse_next(buf, generator, data, cfg)
    IN  IF r.res = "Some"
        THEN IF r.payload.len > out_max_len
             THEN [ret |-> -2, payload |-> NoPayload,
                   generator |-> r.generator, buffer |-> r.buffer]
             ELSE [ret |-> 1, payload |-> r.payload,
                   generator |-> r.generator, buffer |-> r.buffer]
        ELSE [ret |-> IF r.res = "None" THEN 0 ELSE -5, payload |-> NoPayload,
              generator |-> r.generator, buffer |-> r.buffer]

---------------------------------------------------------------------------
(* SpecCapi: a sender and a receiver that use the C interface.  The caller *)
(* passes an output buffer that is empty or as large as the parser buffer  *)
(* may grow.  A frame the sender was handed goes on the wire and reaches   *)
(* the parser whole; last.res holds the return code in decimal.            *)

OutBufLens == {0, max_buffer_size}

SilentBuildFrame ==
    /\ hist.calls < MaxCapiCalls
    /\ Len(built) < MaxFrames
    /\ \E p \in Payloads, out_max_len \in OutBufLens :
       \E e \in (IF is_ratchet_frame(config, sgen.sequence)
                 THEN 1..NumEntropy ELSE {1}) :
       \E b \in {silent_build_frame(sgen, p, config, e, out_max_len)} :
              /\ sgen' = b.gen
              /\ built' = IF b.ret = 0
                          THEN Append(built, [payload |-> p, frame |-> b.frame,
                                              seq |-> sgen.sequence,
                                              gen |-> b.gen])
                          ELSE built
              /\ wire' = IF b.ret = 0 THEN Append(wire, Len(built) + 1)
                         ELSE wire
              /\ last' = [NoCall EXCEPT !.op = "silent_build_frame",
                                        !.res = ToString(b.ret),
                                        !.payload = p,
                                        !.data_len = out_max_len,
                                        !.before = sgen, !.inner = b.gen]
              /\ hist' = [hist EXCEPT !.calls = @ + 1]
    /\ UNCHANGED <<config, rgen, buffer, yielded>>
    /\ UNCHANGED fec
    /\ UNCHANGED streams

SilentParserAppend ==
    /\ hist.calls < MaxCapiCalls
    /\ wire # <<>>
    /\ \E idx \in {wire[1]} :
       \E r \in {silent_parser_append(buffer, FrameLen(built[idx].frame),
                                      idx)} :
           /\ buffer' = r.buffer
           /\ last' = [NoCall EXCEPT !.op = "silent_parser_append",
                                     !.res = ToString(r.ret), !.idx = idx,
                                     !.before = rgen, !.inner = rgen]
           /\ wire' = Tail(wire)
           /\ hist' = [hist EXCEPT !.calls = @ + 1]
    /\ UNCHANGED <<config, sgen, rgen, built, yielded>>
    /\ UNCHANGED fec
    /\ UNCHANGED streams

SilentParseNext ==
    /\ hist.calls < MaxCapiCalls
    /\ \E head \in BufferHeads(buffer), out_max_len \in OutBufLens :
       \E r \in {silent_parse_next(buffer, rgen, Data(head, buffer.len),
                                   config, out_max_len)} :
          LET idx == IF buffer.frames # <<>> THEN buffer.frames[1] ELSE 0
          IN  /\ rgen' = r.generator
              /\ buffer' = r.buffer
              /\ last' = [NoCall EXCEPT !.op = "silent_parse_next",
                                        !.res = ToString(r.ret),
                                        !.payload = r.payload, !.idx = idx,
                                        !.data_len = out_max_len,
                                        !.before = rgen,
                                        !.inner = r.generator]
              /\ yielded' = IF r.ret = 1 THEN Append(yielded, idx)
                            ELSE yielded
              /\ hist' = [hist EXCEPT !.calls = @ + 1]
    /\ UNCHANGED <<config, sgen, wire, built>>
    /\ UNCHANGED fec
    /\ UNCHANGED streams

NextCapi == SilentBuildFrame \/ SilentParserAppend \/ SilentParseNext

SpecCapi == InitFrame /\ [][NextCapi]_vars

---------------------------------------------------------------------------
(* Claims checked under SpecRT *)

ParsedRT == last.op = "parse"

\* C1 (as stated): with both generators at the same seed and sequence, parsing
\* the whole output of build returns (payload, frame length) and each
\* generator's sequence has advanced by exactly 1, for every payload.
C1_RoundTrip ==
    (ParsedRT /\ hist.s0 = hist.r0) =>
        /\ last.res = "Ok"
        /\ last.payload = built[last.idx].payload
        /\ last.consumed = FrameLen(built[last.idx].frame)
        /\ sgen.sequence = hist.s0 + 1
        /\ rgen.sequence = hist.r0 + 1

\* C5 (as stated): without the sequence hint, a whole frame parsed by a
\* receiver whose sequence differs from the sender's yields DecryptionError.
C5case ==
    /\ ParsedRT
    /\ ~config.enable_sequence_hint
    /\ hist.r0 # hist.s0

C5_DesyncIsDecryptionError == C5case => last.res = "DecryptionError"

\* C5 (amended): such a parse never yields a payload; it ends in one of the
\* three failures, which one being decided by the wrongly de-obfuscated length.
C5_DesyncNeverYields ==
    C5case =>
        /\ last.res \in {"DecryptionError", "InvalidLength", "IncompleteData"}
        /\ last.payload = NoPayload
        /\ yielded = <<>>

C5_Witness == C5case /\ last.res = "InvalidLength"

\* C8: a frame built at sequence s carries the rekey field iff
\* enable_double_ratchet, s > 0 and s mod ratchet_interval = 0; it is then
\* exactly 32 bytes longer than the frame of the same payload and config
\* built at sequence 0, which never carries the field.
PlainFrameRT(i) ==
    build_dynamic_frame(SaltGenerator_new(sgen.seed), built[i].payload,
                        config, 1).frame

C8_RatchetSchedule ==
    \A i \in 1..Len(built) :
        LET s     == built[i].seq
            f     == built[i].frame
            rekey == /\ config.enable_double_ratchet
                     /\ s > 0
                     /\ s % config.ratchet_interval = 0
        IN  /\ (f.entropy # <<>>) <=> rekey
            /\ PlainFrameRT(i).entropy = <<>>
            /\ FrameLen(f) = FrameLen(PlainFrameRT(i)) + (IF rekey THEN 32 ELSE 0)

C8_Witness ==
    \E i \in 1..Len(built) :
        /\ built[i].frame.entropy # <<>>
        /\ FrameLen(built[i].frame) = FrameLen(PlainFrameRT(i)) + 32

---------------------------------------------------------------------------
(* Claims checked under SpecFrame *)

\* C3 (as stated): whenever parse_dynamic_frame returns IncompleteData, for
\* data shorter than the header or shorter than header plus body, the
\* generator's sequence equals its value before the call.
C3_IncompleteKeepsSequence ==
    (last.op = "parse" /\ last.res = "IncompleteData") =>
        last.inner.sequence = last.before.sequence

\* C7: with the sequence hint on and whole frames dropped before delivery,
\* the payloads the receiver yields are built payloads in build order, none
\* twice, and after parsing the frame built at sender sequence s the
\* receiver's sequence is s + 1.
C7_SkipNeverReorders ==
    config.enable_sequence_hint =>
        /\ \A i \in 1..Len(yielded) : \A j \in 1..Len(yielded) :
              i < j => yielded[i] < yielded[j]
        /\ (last.op = "parse" /\ last.res = "Ok") =>
              /\ last.payload = built[last.idx].payload
              /\ rgen.sequence = built[last.idx].seq + 1

\* A frame parsed by resynchronisation after the frame before it was dropped.
C7_Witness ==
    /\ config.enable_sequence_hint
    /\ hist.dropped > 0
    /\ last.op = "parse" /\ last.res = "Ok"
    /\ last.before.sequence < built[last.idx].seq
    /\ rgen.sequence = built[last.idx].seq + 1

\* C9: with the double ratchet on and frames delivered whole and in order,
\* every frame decodes to its payload, and after it the receiver's
\* (seed, sequence) is the sender's (seed, sequence) after building it; the
\* sequence counts the frames and is never reset.
C9case ==
    /\ config.enable_double_ratchet
    /\ hist.dropped = 0
    /\ ~hist.cut

C9_RatchetKeepsSync ==
    C9case =>
        /\ yielded = [i \in 1..hist.calls |-> i]
        /\ last.op = "parse" =>
              /\ last.res = "Ok"
              /\ last.payload = built[last.idx].payload
              /\ rgen = built[last.idx].gen
              /\ rgen.sequence = last.idx

\* Three frames decoded, the receiver's seed ratcheted on the way.
C9_Witness ==
    /\ C9case
    /\ Len(yielded) = 3
    /\ Len(rgen.seed) > 1
    /\ rgen = sgen

---------------------------------------------------------------------------
(* Claims checked under Spec *)

\* The latest call was try_parse_next on a buffer holding a whole frame.
HadWholeFrame ==
    /\ last.idx # 0
    /\ last.data_len >= FrameLen(built[last.idx].frame)

\* C2 (as stated): however the concatenation of the frames built in order is
\* cut into chunks for append_data and interleaved with try_parse_next, the
\* parser yields exactly the built payloads in build order and returns
\* Ok(None) whenever the buffer does not yet hold a complete frame.
\* Stated for streams the owner never clears and frames that fit the buffer.
C2_StreamYieldsBuilt ==
    (/\ ~hist.cleared
     /\ \A i \in 1..Len(built) : FrameLen(built[i].frame) <= max_buffer_size) =>
        /\ yielded = [i \in 1..Len(yielded) |-> i]
        /\ last.op = "append_data" => last.res = "Ok"
        /\ last.op = "try_parse_next" =>
              IF HadWholeFrame
              THEN last.res = "Some" /\ last.payload = built[last.idx].payload
              ELSE last.res = "None"

\* C4 (as stated): the receiver mixes the rekey entropy into its seed only
\* after the AEAD open succeeds: a parse that ends in IncompleteData or in
\* an error leaves the generator's seed unchanged.
C4_SeedMixedAfterOpen ==
    (last.op = "try_parse_next" /\ last.res # "Some") =>
        /\ last.inner.seed = last.before.seed
        /\ rgen.seed = last.before.seed

\* append_data was just called (every call moves the stream forward).
AppendedStep ==
    /\ last'.op = "append_data"
    /\ built' = built
    /\ wire' # wire \/ hist'.sent # hist.sent

\* C23: after any sequence of append_data, try_parse_next and clear the
\* buffer never holds more than 10 MiB; an append_data that would exceed the
\* cap returns InvalidLength, any other append_data returns Ok and adds its
\* bytes; every error of try_parse_next other than Incomplete leaves the
\* buffer empty.
C23_BufferCapped ==
    /\ [](buffer.len <= max_buffer_size)
    /\ []((last.op = "try_parse_next" /\ last.res \notin {"Some", "None"})
             => buffer = NoBuffer)
    /\ [][AppendedStep =>
             /\ last'.res = "InvalidLength"
                   <=> buffer.len + last'.data_len > max_buffer_size
             /\ last'.res # "InvalidLength" =>
                   /\ last'.res = "Ok"
                   /\ buffer'.len = buffer.len + last'.data_len]_vars

\* try_parse_next failed on a buffer that held bytes, in a stream in which
\* a frame longer than the cap was built.
C23_Witness ==
    /\ last.op = "try_parse_next"
    /\ last.res \notin {"Some", "None"}
    /\ last.data_len > 0
    /\ buffer.len = 0
    /\ \E i \in 1..Len(built) : FrameLen(built[i].frame) > max_buffer_size

---------------------------------------------------------------------------
(* Claims checked under SpecLoss *)

ParsedL == last.op = "parse"

\* The 16-bit hint of the parsed frame is also the hint of the sequence the
\* receiver expected or of a sequence ahead of it and before the frame's.
HintCollides ==
    LET frame == built[last.idx].frame
        gen0  == last.before
    IN  \E s \in gen0.sequence .. (built[last.idx].seq - 1) :
            /\ s <= gen0.sequence + search_window
            /\ SeqHint(get_salt_for_sequence(gen0, s)) = frame.hint[1]

\* C6 (as stated): after n frames the receiver never saw, the next frame
\* parses to its payload when n <= 999 and yields DecryptionError when
\* n >= 1000.  Stated for frames whose hint collides with no earlier one.
C6_WindowOf999 ==
    (ParsedL /\ ~HintCollides) =>
        /\ hist.dropped <= 999 =>
              last.res = "Ok" /\ last.payload = built[last.idx].payload
        /\ hist.dropped >= 1000 => last.res = "DecryptionError"

\* C6 (amended): the window is 1..=1000.  After n lost frames the next
\* frame parses to its payload when n <= 1000, unless its 16-bit hint
\* collides with that of an earlier sequence of the window; when n >= 1001
\* it never parses, and without such a collision the failure is
\* DecryptionError with the receiver's sequence put back.
C6_WindowOf1000 ==
    ParsedL =>
        /\ (hist.dropped <= search_window /\ ~HintCollides) =>
              /\ last.res = "Ok"
              /\ last.payload = built[last.idx].payload
              /\ rgen.sequence = hist.dropped + 1
        /\ hist.dropped > search_window =>
              /\ last.res # "Ok"
              /\ yielded = <<>>
              /\ ~HintCollides =>
                    /\ last.res = "DecryptionError"
                    /\ rgen.sequence = last.before.sequence
        /\ last.res = "Ok" => last.payload = built[last.idx].payload

\* The frame after exactly 1000 lost frames is parsed.
C6_Witness ==
    /\ ParsedL
    /\ hist.dropped = search_window
    /\ last.res = "Ok"
    /\ last.payload = built[last.idx].payload

---------------------------------------------------------------------------
(* Claims checked under SpecBuild *)

\* C24: across any sequence of build_dynamic_frame calls on one generator,
\* with or without ratcheting, no two frames are sealed under the same
\* (seed, sequence) pair: every call, one that returns an error included,
\* uses the sequence the previous call left and leaves it one higher, and
\* the body of every frame returned is sealed under the seed and sequence
\* the call found.
C24_NoSaltReuse ==
    /\ sgen.sequence = Len(built)
    /\ \A i \in 1..Len(built) :
          /\ built[i].seq = i - 1
          /\ built[i].gen.sequence = built[i].seq + 1
          /\ built[i].res = "Ok" =>
                built[i].frame.body.key
                   = [seed |-> built[i].before.seed, seq |-> built[i].seq]
    /\ \A i, j \in 1..Len(built) :
          (i < j /\ built[i].res = "Ok" /\ built[j].res = "Ok") =>
              built[i].frame.body.key # built[j].frame.body.key

\* A build that failed on the random source, and two frames sealed around
\* a rekey.
C24_Witness ==
    /\ \E i \in 1..Len(built) : built[i].res = "EncryptionError"
    /\ \E i, j \in 1..Len(built) :
          /\ i < j
          /\ built[i].res = "Ok" /\ built[j].res = "Ok"
          /\ built[i].before.seed # built[j].before.seed

---------------------------------------------------------------------------
(* Claims checked under SpecFEC *)

\* C10 (as stated): once k distinct frames of one encode output were fed to
\* process_fec_frame, a RecoveredMessage was returned whose original_data is
\* the input given to encode; with fewer than k distinct frames none is.
\* Stated for sessions that cleanup_timeout_sessions did not remove and that
\* received the encoded frames only.
C10_AnyKFramesRecoverInput ==
    (enc.res = "Ok" /\ ~fout.cleaned /\ fout.bad = {}) =>
        /\ Cardinality(fout.fed) >= enc.k => fout.returned # <<>>
        /\ Cardinality(fout.fed) < enc.k => fout.returned = <<>>
        /\ \A i \in 1..Len(fout.returned) :
              fout.returned[i].original_data = enc.input

\* The session of the encoded message, as the reassembler holds it.
SessionFEC == enc.frames[1].session_id

\* process_fec_frame was just called (the step is a Feed step).
FedStep == fout'.calls = fout.calls + 1

\* C11: for one session, before cleanup removes it, at most one
\* RecoveredMessage is returned over any sequence of process_fec_frame calls;
\* a shard whose block_index the Collecting session already holds changes
\* nothing and returns Ok(None); once the session is Completed every further
\* shard returns Ok(None) and leaves the state as it is.
C11_AtMostOneRecovery ==
    /\ [](~fout.cleaned => Len(fout.returned) <= 1)
    /\ [][(FedStep /\ fout'.last.dup /\ fout'.last.was = "Collecting") =>
              (reasm' = reasm /\ fout'.res = "None")]_vars
    /\ [][(FedStep /\ fout'.last.was = "Completed") =>
              (reasm' = reasm /\ fout'.res = "None"
               /\ reasm'.sessions[SessionFEC].state = "Completed")]_vars

\* A message was recovered, a duplicate was fed on the way, and the latest
\* shard reached the Completed session.
C11_Witness ==
    /\ ~fout.cleaned
    /\ Len(fout.returned) = 1
    /\ fout.dups > 0
    /\ fout.bad = {}
    /\ fout.last.was = "Completed"
    /\ fout.res = "None"
    /\ reasm.sessions[SessionFEC].state = "Completed"

\* C17 (as stated): a shard whose xxhash64 field is not the hash of its other
\* fields is rejected: the call returns without storing it, it does not
\* count toward k, and no RecoveredMessage holds bytes computed from it.
C17_CorruptShardRejected ==
    [][(FedStep /\ fout'.last.kind = "corrupt") =>
          (reasm' = reasm /\ fout'.res # "Some")]_vars

\* C18 (as stated): a shard with block_index >= k + m is dropped, and the
\* session completes as soon as k distinct valid shards were received.
\* Stated for sessions that received no corrupt shard, were not cleaned up
\* and saw at least two valid shards (the first shard of a session never
\* starts a decode, see C10).
C18_OutOfRangeShardDropped ==
    (enc.res = "Ok" /\ fout.bad = {"out_of_range"} /\ ~fout.cleaned) =>
        /\ \A id \in DOMAIN reasm.sessions :
              \A index \in DOMAIN reasm.sessions[id].received_blocks :
                  index < enc.k + enc.m
        /\ (Cardinality(fout.fed) >= enc.k /\ Cardinality(fout.fed) >= 2) =>
              fout.returned # <<>>

\* C21: for a session whose shards are all valid, the call that delivers
\* the k-th distinct shard returns the RecoveredMessage, with blocks_used = k
\* and blocks_total = k + m; every earlier call returns Ok(None), and no
\* other call returns a message.  Stated for sessions that
\* cleanup_timeout_sessions did not remove.
C21_MessageOnKthShard ==
    [][(FedStep /\ fout'.bad = {} /\ ~fout'.cleaned) =>
          /\ (Cardinality(fout.fed) = enc.k - 1
              /\ Cardinality(fout'.fed) = enc.k) =>
                 /\ fout'.res = "Some"
                 /\ fout'.message.blocks_used = enc.k
                 /\ fout'.message.blocks_total = enc.k + enc.m
          /\ Cardinality(fout'.fed) < enc.k => fout'.res = "None"
          /\ fout'.res = "Some" =>
                 /\ Cardinality(fout.fed) = enc.k - 1
                 /\ Cardinality(fout'.fed) = enc.k]_vars

\* The session of the encoded message is Collecting and session_timeout has
\* elapsed since its first shard.
ExpiredFEC ==
    /\ enc.res = "Ok"
    /\ SessionFEC \in DOMAIN reasm.sessions
    /\ reasm.sessions[SessionFEC].state = "Collecting"
    /\ now - reasm.sessions[SessionFEC].start_time > session_timeout

\* cleanup_timeout_sessions was just called and changed the sessions.
CleanedStep == fout'.calls = fout.calls /\ reasm'.sessions # reasm.sessions

\* C22: a session still Collecting when session_timeout has elapsed since
\* its first shard becomes Failed and stays recorded: cleanup of expired
\* sessions leaves it Failed, and so does the next process_fec_frame call,
\* which absorbs a late shard as a no-op and starts no new session.
C22_ExpiredSessionFails ==
    /\ [][(CleanedStep /\ ExpiredFEC) =>
              /\ SessionFEC \in DOMAIN reasm'.sessions
              /\ reasm'.sessions[SessionFEC].state = "Failed"]_vars
    /\ [][(FedStep /\ ExpiredFEC) =>
              /\ reasm'.sessions[SessionFEC].state = "Failed"
              /\ fout'.res = "None"]_vars

\* C25: in every reachable reassembler state a Collecting session holds
\* fewer than k distinct blocks and its received_count is the number of
\* blocks it stores; no session is Decoding when process_fec_frame has
\* returned.
C25_CollectingBelowK ==
    \A id \in DOMAIN reasm.sessions :
        LET st == reasm.sessions[id]
        IN  /\ st.state = "Collecting" =>
                 /\ Cardinality(DOMAIN st.received_blocks) < reasm.k
                 /\ st.received_count = Cardinality(DOMAIN st.received_blocks)
            /\ st.state # "Decoding"

---------------------------------------------------------------------------
(* Claims checked under SpecPool *)

\* The ids of a sequence
Range(seq) == {seq[i] : i \in 1..Len(seq)}

\* C12: after any sequence of acquire_stream, release_stream, close_stream
\* and cleanup_idle_streams every stream id is in exactly one of Free,
\* HighPriority, LowPriority or not allocated: the free queue has no
\* duplicates, the free queue, the high set and the low set are pairwise
\* disjoint, and each holds exactly the ids stream_states gives its state.
C12_PoolExclusive ==
    LET free == Range(pool.free_streams)
        high == pool.high_priority_streams
        low  == pool.low_priority_streams
    IN  /\ Cardinality(free) = Len(pool.free_streams)
        /\ free \cap high = {} /\ free \cap low = {} /\ high \cap low = {}
        /\ free \cup high \cup low = DOMAIN pool.stream_states
        /\ \A id \in DOMAIN pool.stream_states :
              /\ pool.stream_states[id] = "Free" <=> id \in free
              /\ pool.stream_states[id] = "HighPriority" <=> id \in high
              /\ pool.stream_states[id] = "LowPriority" <=> id \in low

\* Slots of all three states at once, after a slot was closed and an
\* already free slot was released again.
C12_Witness ==
    /\ pool.free_streams # <<>>
    /\ pool.high_priority_streams # {}
    /\ pool.low_priority_streams # {}
    /\ pool.next_stream_id > 4 * Cardinality(DOMAIN pool.stream_states)
    /\ sout.op = "release_stream"
    /\ sout.id \in Range(sout.before.free_streams)

\* acquire_stream(true) was just served by preemption.
Preempted == sout.op = "acquire_stream" /\ sout.how = "preempt"

\* C13: when acquire_stream(true) is served by preemption (no free slot,
\* pool at max_streams, a Low slot exists) the slot returned is a Low slot
\* whose last_activity is minimal among the Low slots; it becomes
\* HighPriority, and the counts change by exactly low - 1, high + 1.
C13_PreemptsLeastRecentLow ==
    Preempted =>
        /\ sout.is_high
        /\ sout.before.free_streams = <<>>
        /\ Cardinality(DOMAIN sout.before.stream_states)
              >= sout.before.max_streams
        /\ sout.id \in sout.before.low_priority_streams
        /\ \A other \in sout.before.low_priority_streams :
              sout.before.last_activity[sout.id]
                 <= sout.before.last_activity[other]
        /\ pool.stream_states[sout.id] = "HighPriority"
        /\ sout.id \in pool.high_priority_streams
        /\ stats(pool).low_priority_streams
              = stats(sout.before).low_priority_streams - 1
        /\ stats(pool).high_priority_streams
              = stats(sout.before).high_priority_streams + 1
        /\ stats(pool).total_streams = stats(sout.before).total_streams
        /\ stats(pool).free_streams = 0

\* A preemption that had to choose between Low slots of different age.
C13_Witness ==
    /\ Preempted
    /\ \E other \in sout.before.low_priority_streams :
          sout.before.last_activity[other]
             > sout.before.last_activity[sout.id]

\* C15: the number of allocated slots never exceeds max_streams;
\* acquire_stream mints a new id only when there is no free slot and the
\* pool is below max_streams; a pool with max_streams = 0 returns None.
C15_NeverOverMaxStreams ==
    /\ stats(pool).total_streams <= pool.max_streams
    /\ stats(pool).free_streams + stats(pool).high_priority_streams
          + stats(pool).low_priority_streams <= pool.max_streams
    /\ (sout.op = "acquire_stream" /\ sout.how = "new") =>
          /\ sout.before.free_streams = <<>>
          /\ stats(sout.before).total_streams < sout.before.max_streams
          /\ sout.id = sout.before.next_stream_id
          /\ sout.id \notin DOMAIN sout.before.stream_states
    /\ (sout.op = "acquire_stream" /\ pool.max_streams = 0) =>
          sout.id = NoStream

\* A full pool refused a low-priority request, after minting its last slot
\* to replace a closed one.
C15_Witness ==
    /\ pool.max_streams > 0
    /\ stats(pool).total_streams = pool.max_streams
    /\ pool.next_stream_id > 4 * pool.max_streams
    /\ sout.op = "acquire_stream"
    /\ sout.id = NoStream

---------------------------------------------------------------------------
(* Claims checked under SpecMgr *)

\* The stream ids a manager call returned
ReturnedIds == {sout.result[i][1] : i \in 1..Len(sout.result)}

\* C16: a stream id returned by allocate_stream_for_normal_message or by
\* process_pending_messages is not in the manager's reserved set at the time
\* it is returned, for any sequence of reserve_stream,
\* release_reserved_stream and allocation calls.
C16_ReturnedStreamNotReserved ==
    sout.op \in {"allocate_stream_for_normal_message",
                 "process_pending_messages"} =>
        ReturnedIds \cap mgr.reserved_streams = {}

\* process_pending_messages returned a stream while ids are reserved, after
\* an allocation had failed.
C16_Witness ==
    /\ sout.op = "process_pending_messages"
    /\ ReturnedIds # {}
    /\ mgr.reserved_streams \cap {0, 4} # {}
    /\ mgr.stats.failed_allocations > 0

\* The state the pool recorded for the id before the latest call
StateBefore(stream_id) ==
    IF stream_id \in DOMAIN sout.before.stream_states
    THEN sout.before.stream_states[stream_id] ELSE "none"

\* C19 (as stated): reserve_stream(id) returns false and leaves the
\* reservation set unchanged when id is allocated as HighPriority or
\* LowPriority; otherwise it is idempotent: the call for an id already
\* reserved leaves the manager as it was and does not fail.
C19_ReserveFailsOnUsedStream ==
    sout.op = "reserve_stream" =>
        /\ StateBefore(sout.id) \in {"HighPriority", "LowPriority"} =>
              /\ ~sout.ok
              /\ mgr.reserved_streams = sout.reserved_before
        /\ (/\ StateBefore(sout.id) \notin {"HighPriority", "LowPriority"}
            /\ sout.id \in sout.reserved_before) =>
              /\ sout.ok
              /\ mgr.reserved_streams = sout.reserved_before

---------------------------------------------------------------------------
(* Claims checked under SpecSched *)

\* The sessions submitted and not yet dispatched by any try_send.
Undispatched == DOMAIN sout.submitted \ DOMAIN sout.dispatched

\* try_send was called in every second so far, every task was submitted at
\* Low priority, and no stream is held at high priority: nothing outranks a
\* waiting task, and a promoted task can always be served by preemption.
NoHigherPriorityTraffic ==
    /\ ~sout.gap
    /\ sout.sent_at = clock
    /\ \A s \in DOMAIN sout.submitted : sout.submitted[s].priority = "Low"
    /\ sched.pool.high_priority_streams = {}

\* C14: with no higher-priority traffic, a pending task is dispatched
\* within 2 * max_wait_time of being submitted: no task is still waiting
\* for its first stream later than that.
C14_DispatchedWithinTwiceMaxWait ==
    NoHigherPriorityTraffic =>
        \A s \in Undispatched :
            clock - sout.submitted[s].time <= 2 * max_wait_time

\* C20: after mark_session_complete(session_id) every stream that try_send
\* dispatched for that session and that it still held, the streams of
\* earlier partial try_send calls included, is back in the pool: none is
\* left in the HighPriority or LowPriority set.
C20_SessionCompleteReleasesAll ==
    sout.op = "mark_session_complete" =>
        \A id \in sout.held :
            id \notin sched.pool.high_priority_streams
                         \cup sched.pool.low_priority_streams

\* try_send was just called: the step that leaves "try_send" in sout.op
\* without moving the clock.
TrySendStep == sout'.op = "try_send" /\ clock' = clock

\* The tasks in the queues of a scheduler.
PendingTasks(s) ==
    UNION {{s.pending_tasks[p][i] : i \in 1..Len(s.pending_tasks[p])} :
              p \in Priorities}

\* The places of the frames of a session in the pairs try_send returned.
Positions(result, session_id) ==
    {j \in 1..Len(result) : result[j][2].session_id = session_id}

\* The scheduler is at a try_send that found the task waiting for longer
\* than max_wait_time.
Overdue(task) == clock - task.enqueue_time > max_wait_time

\* C26: within one try_send call streams are offered in the order Urgent,
\* High, Normal, Low: when the call dispatches a frame of a task, every task
\* that was queued at a higher priority at the start of the call and was not
\* overdue has had all its frames dispatched before it.
C26_DescendingPriority ==
    [][TrySendStep =>
          \A hi \in PendingTasks(sched), lo \in PendingTasks(sched) :
              (/\ PriorityRank(hi.priority) > PriorityRank(lo.priority)
               /\ ~Overdue(hi)) =>
                  \A j \in Positions(sout'.result, lo.session_id) :
                      \A f \in Range(hi.frames) :
                          \E i \in 1..(j - 1) : sout'.result[i][2] = f]_vars

\* A try_send that returned a frame of a task submitted later at a higher
\* class before a frame of a task submitted earlier at a lower class.
C26_Witness ==
    /\ sout.op = "try_send"
    /\ Len(sout.result) >= 2
    /\ \E i \in 1..Len(sout.result), j \in 1..Len(sout.result) :
          /\ i < j
          /\ PriorityRank(sout.submitted[sout.result[i][2].session_id].priority)
                > PriorityRank(sout.submitted[sout.result[j][2].session_id].priority)
          /\ sout.result[i][2].session_id > sout.result[j][2].session_id

\* The class at which the session is queued in scheduler s; "none" when it
\* has no pending task.
ClassOf(s, session_id) ==
    IF \E task \in PendingTasks(s) : task.session_id = session_id
    THEN (CHOOSE task \in PendingTasks(s) : task.session_id = session_id).priority
    ELSE "none"

\* C27: each queue is FIFO.  For two tasks submitted at the same priority
\* and never promoted to another class, the one submitted first is served
\* first: a try_send call that returns a frame of the later task leaves no
\* frame of the earlier task pending at that class, and returns the frames
\* of the earlier task before those of the later one.
C27_QueueIsFifo ==
    [][TrySendStep =>
          \A a \in DOMAIN sout.submitted, b \in DOMAIN sout.submitted :
              LET p     == sout.submitted[a].priority
                  found == check_starvation(sched, clock)
              IN  (/\ a < b
                   /\ sout.submitted[b].priority = p
                   /\ ClassOf(found, b) = p
                   /\ Positions(sout'.result, b) # {}) =>
                      /\ ClassOf(sched', a) # p
                      /\ ClassOf(found, a) = p =>
                            \A i \in Positions(sout'.result, a),
                               j \in Positions(sout'.result, b) : i < j]_vars

\* How many pending tasks' frame slots of scheduler s hold the frame.
Held(s, frame) ==
    Cardinality({<<priority, i, j>> \in
                    Priorities \X (1..MaxTasks) \X (1..MaxTaskFrames) :
                    /\ i <= Len(s.pending_tasks[priority])
                    /\ j <= Len(s.pending_tasks[priority][i].frames)
                    /\ s.pending_tasks[priority][i].frames[j] = frame})

\* A frame of a submitted session that try_send returned / that is pending.
WasReturned(frame) == frame \in DOMAIN sout.sent
IsPending(frame) == Held(sched, frame) > 0

\* C28: frame conservation.  Every submitted frame was returned by try_send
\* exactly once or is held by exactly one pending task, never both; a
\* pending task holds exactly the undispatched suffix of the frames of its
\* session, in the queue of its current priority; a task that a try_send
\* call satisfies in part stays in the class the call found it in; and the
\* pairs returned by one try_send call have distinct stream ids.
C28_FrameConservation ==
    /\ [](/\ \A session_id \in DOMAIN sout.submitted :
               \A frame \in {TaskFrames(session_id,
                                 sout.submitted[session_id].frames)[i] :
                             i \in 1..sout.submitted[session_id].frames} :
                  (IF WasReturned(frame) THEN sout.sent[frame] ELSE 0)
                      + Held(sched, frame) = 1
          /\ \A priority \in Priorities :
               \A i \in 1..Len(sched.pending_tasks[priority]) :
                  LET task == sched.pending_tasks[priority][i]
                      n    == sout.submitted[task.session_id].frames
                      left == Len(task.frames)
                  IN  /\ task.session_id \in DOMAIN sout.submitted
                      /\ task.priority = priority
                      /\ left \in 1..n
                      /\ task.frames =
                            SubSeq(TaskFrames(task.session_id, n),
                                   n - left + 1, n)
                      /\ \A frame \in DOMAIN sout.sent :
                            frame.session_id = task.session_id =>
                                frame.block_index < n - left
          /\ \A i, j \in 1..Len(sout.result) :
               i # j => sout.result[i][1] # sout.result[j][1])
    /\ [][TrySendStep =>
            \A session_id \in DOMAIN sout.submitted :
                (/\ Positions(sout'.result, session_id) # {}
                 /\ ClassOf(sched', session_id) # "none") =>
                    ClassOf(sched', session_id) =
                        ClassOf(check_starvation(sched, clock), session_id)]_vars

\* C28 witness: a try_send call returned two pairs and left a task
\* satisfied in part, one of its frames returned and another pending.
C28_Witness ==
    /\ sout.op = "try_send"
    /\ Len(sout.result) >= 2
    /\ \E session_id \in DOMAIN sout.submitted :
          /\ Positions(sout.result, session_id) # {}
          /\ WasReturned([session_id |-> session_id, block_index |-> 0])
          /\ IsPending([session_id |-> session_id, block_index |-> 1])

\* The front task of the queue waited longer than max_wait_time.
HeadOverdue(s, priority) ==
    /\ s.pending_tasks[priority] # <<>>
    /\ Overdue(Head(s.pending_tasks[priority]))

\* C29: the boost at the start of try_send runs at most once per
\* BOOST_PERIOD, and one boost raises a task by exactly one class: the
\* tasks of a Low or Normal queue whose head is overdue move to the next
\* class, the other tasks stay, and no Low task ends in High.
C29_BoostOneClass ==
    [][TrySendStep =>
          LET boosted == check_starvation(sched, clock)
          IN  /\ boosted # sched =>
                    clock - sched.last_priority_boost >= BOOST_PERIOD
              /\ \A task \in PendingTasks(sched) :
                    ClassOf(boosted, task.session_id) =
                        IF /\ boosted # sched
                           /\ task.priority \in {"Low", "Normal"}
                           /\ HeadOverdue(sched, task.priority)
                        THEN Promoted(task.priority)
                        ELSE task.priority]_vars

\* The task of the session pending in scheduler s, and the tasks queued
\* ahead of it in its queue.
TaskOf(s, session_id) ==
    CHOOSE task \in PendingTasks(s) : task.session_id = session_id

Ahead(s, session_id) ==
    LET queue == s.pending_tasks[ClassOf(s, session_id)]
        at    == CHOOSE i \in 1..Len(queue) : queue[i].session_id = session_id
    IN  {queue[i] : i \in 1..(at - 1)}

RecordedFor(s, stream_id) ==
    {session_id \in DOMAIN s.active_sessions :
        stream_id \in Range(s.active_sessions[session_id].assigned_streams)}

\* C31: when a try_send call preempts a Low slot that is recorded for an
\* active session (the slot is LowPriority before the call and HighPriority
\* after it), the stream leaves the record of the preempted session: after
\* the call it is recorded for at most one active session.
C31_PreemptedStreamUnrecorded ==
    [][TrySendStep =>
          \A stream_id \in sched.pool.low_priority_streams
                              \cap sched'.pool.high_priority_streams :
              RecordedFor(sched, stream_id) # {} =>
                  Cardinality(RecordedFor(sched', stream_id)) <= 1]_vars

\* The pool can supply a stream that is not reserved: a free slot that is
\* not reserved exists, or the pool is below max_streams.
CanSupply(p, reserved) ==
    \/ \E i \in 1..Len(p.free_streams) : p.free_streams[i] \notin reserved
    \/ has_quota(p)

\* C32: allocate_stream_for_normal_message returns a (stream, payload) pair
\* whenever the manager's pool can supply a stream that is not reserved,
\* and enqueues the payload only when it cannot.
C32_AllocatesWhenSupplyExists ==
    sout.op = "allocate_stream_for_normal_message" =>
        /\ CanSupply(sout.before, sout.reserved_before) =>
              /\ sout.ok
              /\ Len(sout.result) = 1
              /\ sout.result[1][1] \notin sout.reserved_before
        /\ ~sout.ok => ~CanSupply(sout.before, sout.reserved_before)

(* Claims checked under SpecMgr: the pending normal messages *)

\* The step of a process_pending_messages call.
ProcessedStep ==
    /\ sout'.op = "process_pending_messages"
    /\ sout'.calls = sout.calls + 1

\* The place of the message with this payload in the queue, 0 when absent.
PlaceOf(queue, data) ==
    IF \E i \in 1..Len(queue) : queue[i].data = data
    THEN CHOOSE i \in 1..Len(queue) : queue[i].data = data
    ELSE 0

\* The payloads a manager call returned with a stream.
ReturnedData == {sout.result[i][2] : i \in 1..Len(sout.result)}

\* C33: every pending normal message leaves the queue after a bounded
\* number of process_pending_messages calls.  A call either returns the
\* message with a stream, or discards it, which it does exactly when the
\* message is older than MESSAGE_TIMEOUT or its retry_count has reached
\* max_retry_count, or keeps it with retry_count one higher; retry_count
\* never exceeds max_retry_count; the messages a call keeps are in the
\* order they had before.
C33_PendingMessagesLeave ==
    /\ [](\A i \in 1..Len(mgr.pending_normal_messages) :
             mgr.pending_normal_messages[i].retry_count <= max_retry_count)
    /\ [][ProcessedStep =>
            LET queue == mgr.pending_normal_messages
                kept  == mgr'.pending_normal_messages
            IN  /\ \A i \in 1..Len(queue) :
                      LET message == queue[i]
                          at      == PlaceOf(kept, message.data)
                          given   == \E j \in 1..Len(sout'.result) :
                                        sout'.result[j][2] = message.data
                          stale   == \/ clock - message.enqueue_time
                                           > MESSAGE_TIMEOUT
                                     \/ message.retry_count >= max_retry_count
                      IN  /\ stale => at = 0 /\ ~given
                          /\ ~stale =>
                                \/ given /\ at = 0
                                \/ /\ ~given
                                   /\ at # 0
                                   /\ kept[at] = [message EXCEPT
                                                    !.retry_count = @ + 1]
                /\ \A i \in 1..Len(kept) : PlaceOf(queue, kept[i].data) # 0
                /\ \A i, j \in 1..Len(kept) :
                      i < j => PlaceOf(queue, kept[i].data)
                                  < PlaceOf(queue, kept[j].data)]_vars

\* C33 witness: a message that no call gave a stream was enqueued and has
\* left the queue before the message timeout: it was discarded at its
\* retry limit.
C33_Witness ==
    /\ sout.op = "process_pending_messages"
    /\ mgr.stats.failed_allocations > 0
    /\ mgr.stats.total_streams_allocated = 0
    /\ mgr.pending_normal_messages = <<>>
    /\ clock <= MESSAGE_TIMEOUT

(* Claims checked under SpecMissed *)

\* The receiver missed a ratchet frame built before frame idx: one of the
\* frames lost ahead of it, unread, carried rekey entropy.
MissedRatchet(idx) ==
    \E j \in hist.lost : j < idx /\ built[j].frame.entropy # <<>>

\* The header size parse_dynamic_frame computes from the generator.
ExpectedHeader(generator) ==
    4 + 2 + (IF is_ratchet_frame(config, generator.sequence)
             THEN ENTROPY_LEN ELSE 0)

\* The latest parse resynchronised to a sequence whose ratchet-frame
\* predicate differs from that of the sequence the receiver was at.
ResyncChangesRatchet ==
    LET frame  == built[last.idx].frame
        ns     == next_salt(last.before)
        offset == FindSync(ns.gen, last.before.sequence, frame.hint[1])
    IN  /\ last.data_len >= ExpectedHeader(last.before)
        /\ frame.hint[1] # SeqHint(ns.salt)
        /\ offset # 0
        /\ is_ratchet_frame(config, last.before.sequence + offset)
              # is_ratchet_frame(config, last.before.sequence)

C35_EncodeShape ==
    enc.res = "Ok" =>
        LET frames     == enc.frames
            block_size == frames[1].payload.len
        IN  /\ Len(frames) = enc.k + enc.m
            /\ {frames[i].block_index : i \in 1..Len(frames)}
                  = 0..(enc.k + enc.m - 1)
            /\ \A i \in 1..Len(frames) :
                  /\ frames[i].block_type =
                        IF frames[i].block_index < enc.k
                        THEN "Original" ELSE "Redundant"
                  /\ frames[i].session_id = frames[1].session_id
                  /\ frames[i].k = enc.k
                  /\ frames[i].m = enc.m
                  /\ frames[i].payload.len = block_size
                  /\ validate_frame(frames[i])
            /\ block_size % BLOCK_ALIGN = 0
            /\ block_size >= BLOCK_ALIGN
            /\ enc.k * block_size >= 4 + Len(enc.input)

\* C35 witness: an input that does not fit one block with its length
\* prefix was encoded into one data block and two parity blocks.
C35_Witness ==
    /\ enc.res = "Ok"
    /\ enc.k = 1
    /\ enc.m = 2
    /\ 4 + Len(enc.input) > BLOCK_ALIGN
    /\ Len(enc.frames) = 3
    /\ enc.frames[1].payload.len = 2 * BLOCK_ALIGN

(* Claims checked under SpecUni *)

\* The streams a pool holds as HighPriority or LowPriority.
InUse(p) == p.high_priority_streams \cup p.low_priority_streams

\* C36: in UnifiedStreamManager no stream id is in use for a normal message
\* and for an FEC frame at the same time, and the number of stream ids in
\* use for both kinds of traffic never exceeds max_streams_per_connection.
C36_OneStreamOneUse ==
    /\ sout.held \cap DOMAIN sout.owner = {}
    /\ InUse(mgr.stream_pool) \cap InUse(mgr.stream_scheduler.pool) = {}
    /\ Cardinality(InUse(mgr.stream_pool))
          + Cardinality(InUse(mgr.stream_scheduler.pool))
          <= mgr.stream_pool.max_streams

\* The step of a mark_frame_sent call of the manager.
MarkedStep ==
    /\ sout'.op = "mark_frame_sent"
    /\ sout'.calls = sout.calls + 1

\* The step of an allocate_stream_for_normal_message call.
AllocatedStep ==
    /\ sout'.op = "allocate_stream_for_normal_message"
    /\ sout'.calls = sout.calls + 1

\* C37: a stream issued for a normal message is returned by the manager's
\* mark_frame_sent: after the call the stream is Free in the manager's
\* stream_pool, the pool that issued it; and a manager none of whose
\* normal-message streams is outstanding serves the next normal message.
C37_NormalStreamReturned ==
    /\ [][(MarkedStep /\ sout'.id \in sout.held) =>
              /\ sout'.id \in DOMAIN mgr'.stream_pool.stream_states
              /\ mgr'.stream_pool.stream_states[sout'.id] = "Free"]_vars
    /\ [][(AllocatedStep /\ sout.held = {}) => sout'.ok]_vars

(***************************************************************************)
(* Claims checked under SpecSched: the end of a session                    *)
(***************************************************************************)

\* mark_session_complete was just called.
CompletedStep ==
    sout'.op = "mark_session_complete" /\ sout'.calls = sout.calls + 1

\* C38: mark_session_complete(A) moves to Free only streams that A still
\* holds: every stream the call takes out of use carried a frame of A, the
\* last frame try_send put on it, and was not released since.  A stream
\* that carries a frame of another session stays in use.
C38_CompleteReleasesOwnStreams ==
    [][CompletedStep =>
          \A id \in InUse(sched.pool) \ InUse(sched'.pool) :
              /\ id \in DOMAIN sout.owner
              /\ sout.owner[id] = sout'.sid]_vars

(***************************************************************************)
(* Claims checked under SpecCrit *)
(***************************************************************************)

\* prepare_critical_message was just called.
PreparedStep ==
    sout'.op = "prepare_critical_message" /\ sout'.calls = sout.calls + 1

\* C39: prepare_critical_message either returns k + m pairs with pairwise
\* distinct stream ids and block_index 0..k+m-1, or returns an error and
\* leaves the scheduler of the connection as before the call: no task of
\* the call's session is in a pending queue and the streams in use are the
\* ones that were in use before.  This holds whatever max_streams_per_conn
\* is, below k + m included.
C39_PrepareAllOrNothing ==
    [][PreparedStep =>
          LET total_frames == sout'.submitted[sout'.sid].frames
              result       == sout'.result
          IN  IF sout'.ok
              THEN /\ Len(result) = total_frames
                   /\ \A i, j \in 1..Len(result) :
                         i # j => result[i][1] # result[j][1]
                   /\ \A i \in 1..Len(result) :
                         result[i][2].block_index = i - 1
              ELSE /\ \A task \in PendingTasks(sched') :
                         task.session_id # sout'.sid
                   /\ InUse(sched'.pool) = InUse(sched.pool)]_vars

(***************************************************************************)
(* Claims checked under SpecCapi *)
(***************************************************************************)

\* The call that just returned was `op` and it returned -2.
BufferTooSmall(op) ==
    /\ hist'.calls = hist.calls + 1
    /\ last'.op = op
    /\ last'.res = "-2"

\* C40: a silent_build_frame that returns -2 leaves the sender's generator
\* (seed and sequence) as it was before the call, and a silent_parse_next
\* that returns -2 leaves the parser's buffer and generator as they were,
\* so the call can be repeated with a larger output buffer.
C40_TooSmallChangesNothing ==
    /\ [][BufferTooSmall("silent_build_frame") => sgen' = sgen]_vars
    /\ [][BufferTooSmall("silent_parse_next") =>
             rgen' = rgen /\ buffer' = buffer]_vars

=============================================================================
